---- MODULE Spec2Model ----
(***************************************************************************)
(* apple-main: the bridge between a tokio runtime and the main thread's    *)
(* dispatch queue (src/src/dispatch.rs), the runtime singleton             *)
(* (src/src/runtime.rs), the main-thread oracle (src/src/platform), the    *)
(* generated entry point (src/macros/src/lib.rs, src/src/lib.rs), the      *)
(* test harness (src/src/test_harness.rs) and the Criterion main           *)
(* (criterion_main!, src/src/lib.rs).                                      *)
(***************************************************************************)
EXTENDS Integers, Sequences, FiniteSets, TLC

\* ------------------------------------------------------------------ bounds
NumCallers == 2      \* tasks / threads that run user code
MaxCalls == 2        \* on_main / on_main_sync calls made in one run
NumInitThreads == 3  \* threads racing on init_runtime (SpecRuntime)
MaxRtOps == 2        \* runtime-API calls one thread makes (SpecRuntime)
NumWorkers == 1      \* worker threads of the executor (SpecExecutor)

Callers == 1..NumCallers
NoVal == 0
\* The value f() yields. Every closure yields a value of its own, so that a
\* result that reaches another call, or a default, is told apart from f's.
ValueOf(k) == k
MainThread == 0
NoThread == -1
RtThreads == 0..(NumInitThreads - 1)   \* thread 0 is the main thread
NoRuntime == 0
\* The executor thread that runs the task run_tests spawns (test_harness.rs:38).
RunnerThread == NumCallers + 1
\* The thread criterion_main! spawns for Criterion (lib.rs:203).
CriterionThread == NumCallers + 2
NoReport == [done |-> FALSE, passed |-> 0, failed |-> 0]
NoAwait == [call |-> 0, carrier |-> 0]
Workers == 1..NumWorkers

VARIABLES
    platform,   \* cfg(target_os): "macos" (main-thread affinity) or "other"
    assembly,   \* the generated main: "main" (#[apple_main::main]), "harness" (run_tests),
                \* "criterion" (criterion_main!), "tokio" (#[tokio::main]), "test" (#[apple_main::test])
    mainPc,     \* position of the main thread
    pc,         \* position of each caller (body task, spawned task, trial)
    queue,      \* dispatch::Queue::main(): FIFO of work items
    running,    \* id of the call whose closure the queue is executing, or 0
    calls,      \* one record per on_main / on_main_sync call, in call order
    obs,        \* the latest is_main_thread() from user code: <<thread, result>>, or <<>>
    exited,     \* std::process::exit was called / main returned
    exitCode,
    exitThread, \* the thread that ended the process, or NoThread
    RUNTIME,    \* static RUNTIME: OnceLock<Runtime>: the stored instance or NoRuntime
    once,       \* state of the OnceLock's Once: "incomplete", "running", "poisoned", "complete"
    constructed,\* number of Runtimes built so far (instances are numbered 1, 2, ...)
    rtPc,       \* position of each thread using the runtime API
    rtRet,      \* what the thread's last runtime-API call returned
    rtOps,      \* runtime-API calls the thread has made
    registry,   \* inventory's registry of TestCase: case ids in registration order
    trials,     \* Vec<Trial> built by collect_tests: the case each trial runs
    reads,      \* times the registry was iterated
    faulty,     \* the callers whose body panics (a failing assertion)
    testThreads,\* libtest_mimic::Arguments: "pool" (worker threads) or "one" (--test-threads=1)
    report,     \* libtest_mimic's Conclusion: [passed, failed], or NoReport
    workers,    \* executor worker threads: the task each one is running, or 0
    awaiting,   \* the call each suspended task awaits and the worker it left, or NoAwait
    benchPc,    \* position of the thread that runs Criterion (criterion_main!)
    startCh,    \* the mpsc channel of criterion_main!: "none", "open", "sent", "closed"
    userRt      \* how each caller's latest runtime() ended: "none", "ok", "fatal"

vars == <<platform, assembly, mainPc, pc, queue, running, calls, obs, exited,
          exitCode, exitThread, RUNTIME, once, constructed, rtPc, rtRet, rtOps,
          registry, trials, reads, faulty, testThreads, report, workers, awaiting,
          benchPc, startCh, userRt>>

bridgeVars == <<platform, assembly, mainPc, pc, queue, running, calls, obs, exited,
                exitCode, exitThread>>
rtVars == <<RUNTIME, once, constructed, rtPc, rtRet, rtOps>>
harnessVars == <<registry, trials, reads, faulty, testThreads, report>>
execVars == <<workers, awaiting>>
criterionVars == <<benchPc, startCh>>

\* ------------------------------------------------------------ the oracle
\* platform/apple.rs: pthread_main_np() != 0; platform/other.rs: true.
IsMainThreadAlways(plat, t) == TRUE
IsMainThread(plat, t) == IF plat = "macos" THEN t = MainThread ELSE TRUE

\* The thread a caller's code runs on. With main-thread affinity user code is
\* spawned on the runtime (macros/src/lib.rs:33, test_harness.rs:38); without
\* it the body is driven by block_on on the thread that entered main.
\* The thread that calls libtest_mimic::run: the spawned task's executor
\* thread (test_harness.rs:38-40), or the main thread (test_harness.rs:56).
HarnessThread(plat) == IF plat = "macos" THEN RunnerThread ELSE MainThread

\* The thread that runs the benchmark groups: the spawned thread
\* (lib.rs:203-211), or the main thread (lib.rs:237).
BenchThread(plat) == IF plat = "macos" THEN CriterionThread ELSE MainThread

\* With --test-threads=1 libtest_mimic runs every trial on the thread that
\* called run; otherwise each trial runs on a thread of its pool. Under
\* #[tokio::main] the body is driven by block_on on the main thread
\* (examples/tokio_main_test.rs:11-12).
ThreadOfBlockOn(c) ==
    IF assembly \in {"main", "tokio"} /\ c = 1 THEN MainThread
    ELSE IF assembly = "criterion" THEN BenchThread(platform)
    ELSE IF assembly = "harness" /\ testThreads = "one" THEN HarnessThread(platform)
    ELSE c
ThreadOf(c) ==
    IF platform = "other" /\ assembly = "main" /\ c = 1 THEN MainThread
    ELSE IF assembly = "tokio" /\ c = 1 THEN MainThread
    ELSE IF assembly = "criterion" THEN BenchThread(platform)
    ELSE IF assembly = "harness" /\ testThreads = "one" THEN HarnessThread(platform)
    ELSE c

\* ------------------------------------------------- runtime.rs: the singleton
\* OnceLock::get_or_init runs its initializer only from the not-yet-complete,
\* not-running states of its Once (call_once_force also runs it after a
\* panicked attempt); a caller that finds it running waits for the outcome.
CanRunInitRacy(o) == o # "complete"
CanRunInit(o) == o \in {"incomplete", "poisoned"}

\* RUNTIME.get(): Some(instance) only once the Once is complete.
RuntimeSlotEager(o, slot) == IF o = "complete" THEN slot ELSE 1
RuntimeSlot(o, slot) == IF o = "complete" THEN slot ELSE NoRuntime

Returned(t, op, inst) ==
    /\ rtRet' = [rtRet EXCEPT ![t] = [op |-> op, inst |-> inst]]
    /\ rtOps' = [rtOps EXCEPT ![t] = @ + 1]

\* init_runtime(), entry: RUNTIME.get_or_init(|| ...) (runtime.rs:7-14).
InitRuntimeEnter(t) ==
    /\ rtPc[t] = "idle"
    /\ rtOps[t] < MaxRtOps
    /\ IF once = "complete"
       THEN /\ Returned(t, "init_runtime", RUNTIME)
            /\ UNCHANGED <<RUNTIME, once, constructed, rtPc>>
       ELSE IF CanRunInit(once)
       THEN /\ once' = "running"
            /\ rtPc' = [rtPc EXCEPT ![t] = "building"]
            /\ UNCHANGED <<RUNTIME, constructed, rtRet, rtOps>>
       ELSE /\ rtPc' = [rtPc EXCEPT ![t] = "waiting"]
            /\ UNCHANGED <<RUNTIME, once, constructed, rtRet, rtOps>>

\* The initializer: Builder::new_multi_thread().enable_all().build()
\* .expect("failed to create tokio runtime") (runtime.rs:8-13).
BuildRuntime(t, ok) ==
    /\ rtPc[t] = "building"
    /\ IF ok
       THEN /\ constructed' = constructed + 1
            /\ RUNTIME' = constructed + 1
            /\ once' = "complete"
            /\ rtPc' = [rtPc EXCEPT ![t] = "idle"]
            /\ Returned(t, "init_runtime", constructed + 1)
       ELSE /\ once' = "poisoned"
            /\ rtPc' = [rtPc EXCEPT ![t] = "panicked"]
            /\ rtRet' = [rtRet EXCEPT ![t] = [op |-> "init_runtime", inst |-> NoRuntime]]
            /\ UNCHANGED <<RUNTIME, constructed, rtOps>>

\* A caller that waited on the running initializer sees its outcome.
InitRuntimeWake(t) ==
    /\ rtPc[t] = "waiting"
    /\ once # "running"
    /\ IF once = "complete"
       THEN /\ rtPc' = [rtPc EXCEPT ![t] = "idle"]
            /\ Returned(t, "init_runtime", RUNTIME)
            /\ UNCHANGED <<RUNTIME, once, constructed>>
       ELSE /\ once' = "running"
            /\ rtPc' = [rtPc EXCEPT ![t] = "building"]
            /\ UNCHANGED <<RUNTIME, constructed, rtRet, rtOps>>

\* runtime(): RUNTIME.get().expect("runtime not initialized ...") (runtime.rs:16-20);
\* block_on(f): runtime().block_on(f) (runtime.rs:22-24).
RuntimeGet(t, op) ==
    /\ rtPc[t] = "idle"
    /\ rtOps[t] < MaxRtOps
    /\ IF RuntimeSlot(once, RUNTIME) # NoRuntime
       THEN /\ Returned(t, op, RuntimeSlot(once, RUNTIME))
            /\ UNCHANGED rtPc
       ELSE /\ rtPc' = [rtPc EXCEPT ![t] = "panicked"]
            /\ rtRet' = [rtRet EXCEPT ![t] = [op |-> op, inst |-> NoRuntime]]
            /\ UNCHANGED rtOps
    /\ UNCHANGED <<RUNTIME, once, constructed>>

RtInit ==
    /\ RUNTIME = NoRuntime
    /\ once = "incomplete"
    /\ constructed = 0
    /\ rtPc = [t \in RtThreads |-> "idle"]
    /\ rtRet = [t \in RtThreads |-> [op |-> "none", inst |-> NoRuntime]]
    /\ rtOps = [t \in RtThreads |-> 0]

\* ----------------------------------------------- SpecRuntime: racing threads
\* K threads call init_runtime / runtime / block_on in any order.
RtInitRuntime(t) == InitRuntimeEnter(t) /\ UNCHANGED <<bridgeVars, harnessVars, execVars, criterionVars, userRt>>
RtBuild(t) == (\E ok \in BOOLEAN : BuildRuntime(t, ok)) /\ UNCHANGED <<bridgeVars, harnessVars, execVars, criterionVars, userRt>>
RtWake(t) == InitRuntimeWake(t) /\ UNCHANGED <<bridgeVars, harnessVars, execVars, criterionVars, userRt>>
RtRuntime(t) == RuntimeGet(t, "runtime") /\ UNCHANGED <<bridgeVars, harnessVars, execVars, criterionVars, userRt>>
RtBlockOn(t) == RuntimeGet(t, "block_on") /\ UNCHANGED <<bridgeVars, harnessVars, execVars, criterionVars, userRt>>

BridgeIdle ==
    /\ platform \in {"macos", "other"}
    /\ assembly = "none"
    /\ mainPc = "start"
    /\ pc = [c \in Callers |-> "idle"]
    /\ queue = <<>>
    /\ running = 0
    /\ calls = <<>>
    /\ obs = <<>>
    /\ exited = FALSE
    /\ exitCode = 0
    /\ exitThread = NoThread
    /\ registry = <<>>
    /\ trials = <<>>
    /\ reads = 0
    /\ faulty = {}
    /\ testThreads = "pool"
    /\ report = NoReport
    /\ workers = [w \in Workers |-> 0]
    /\ awaiting = [c \in Callers |-> NoAwait]
    /\ benchPc = "none"
    /\ startCh = "none"
    /\ userRt = [c \in Callers |-> "none"]

InitRuntimeRace == RtInit /\ BridgeIdle

NextRuntime ==
    \E t \in RtThreads :
        \/ RtInitRuntime(t)
        \/ RtBuild(t)
        \/ RtWake(t)
        \/ RtRuntime(t)
        \/ RtBlockOn(t)

SpecRuntime == InitRuntimeRace /\ [][NextRuntime]_vars

\* ------------------------------------------------ dispatch.rs: the bridge
\* A call of on_main ("async") or on_main_sync ("sync"). st: where its work
\* item is; tx/chanVal: the sending half of the oneshot channel (for a sync
\* call, exec_sync's result slot); rx: the receiving half held by the future;
\* outcome/result: how the call ended for its caller.
NewCall(kind, c) ==
    [kind |-> kind, owner |-> c, st |-> "queued",
     produced |-> NoVal, execThread |-> NoThread, sawMain |-> FALSE, execCount |-> 0,
     tx |-> "held", chanVal |-> NoVal, sendCount |-> 0,
     rx |-> "alive", outcome |-> "pending", result |-> NoVal]

\* not(target_os = "macos"): f() runs in the call itself (dispatch.rs:26, 44).
InlineCall(kind, c, k) ==
    [kind |-> kind, owner |-> c, st |-> "done",
     produced |-> ValueOf(k), execThread |-> ThreadOf(c),
     sawMain |-> IsMainThread(platform, ThreadOf(c)), execCount |-> 1,
     tx |-> "none", chanVal |-> NoVal, sendCount |-> 0,
     rx |-> "none", outcome |-> "returned", result |-> ValueOf(k)]

CallItem(k) == [type |-> "call", id |-> k, code |-> 0]
ExitItem(code) == [type |-> "exit", id |-> 0, code |-> code]
\* criterion_main!: the closure that sends the start signal (lib.rs:223-225)
\* and the closure that stops the run loop (lib.rs:217-219).
SignalItem == [type |-> "signal", id |-> 0, code |-> 0]
StopItem == [type |-> "stop", id |-> 0, code |-> 0]

CallIds == 1..Len(calls)
Pending(c) == {k \in CallIds : calls[k].owner = c /\ calls[k].outcome = "pending"}

\* Dropping a future drops its receiver; nothing reaches the queue.
DropFutures(cs, ks) ==
    [k \in CallIds |->
        IF k \in ks THEN [cs[k] EXCEPT !.rx = "dropped", !.outcome = "abandoned"]
        ELSE cs[k]]

Live == ~exited

\* The thread that runs a work item of the main queue: the main thread, for
\* exec_async and exec_sync alike.
ExecThreadOnCaller(call) ==
    IF call.kind = "sync" THEN ThreadOf(call.owner) ELSE MainThread
ExecThread(call) == MainThread

\* on_main(f), first poll: oneshot::channel(); Queue::main().exec_async(..)
\* (dispatch.rs:7-12); without affinity f() (dispatch.rs:26).
OnMainEnqueueFront(c) ==
    IF platform = "macos"
    THEN /\ calls' = Append(calls, NewCall("async", c))
         /\ queue' = <<CallItem(Len(calls) + 1)>> \o queue
    ELSE /\ calls' = Append(calls, InlineCall("async", c, Len(calls) + 1))
         /\ UNCHANGED queue
OnMainEnqueueAlways(c) ==
    /\ calls' = Append(calls, NewCall("async", c))
    /\ queue' = Append(queue, CallItem(Len(calls) + 1))
OnMainEnqueue(c) ==
    IF platform = "macos"
    THEN /\ calls' = Append(calls, NewCall("async", c))
         /\ queue' = Append(queue, CallItem(Len(calls) + 1))
    ELSE /\ calls' = Append(calls, InlineCall("async", c, Len(calls) + 1))
         /\ UNCHANGED queue

OnMain(c) ==
    /\ Live /\ pc[c] = "ready"
    /\ Len(calls) < MaxCalls
    /\ OnMainEnqueue(c)
    /\ UNCHANGED <<platform, assembly, mainPc, pc, running, obs, exited, exitCode, exitThread>>
    /\ UNCHANGED <<rtVars, harnessVars, execVars, criterionVars, userRt>>

\* rx.await.expect("main thread dispatch failed: ...") (dispatch.rs:14-17).
\* The receiver resolves with the value once one was sent, and with an error
\* once the sender is gone without having sent.
RecvOutcomeDefault(call) ==
    IF call.tx = "sent" THEN [ok |-> TRUE, val |-> call.chanVal]
    ELSE [ok |-> TRUE, val |-> NoVal]
RecvOutcome(call) ==
    IF call.tx = "sent" THEN [ok |-> TRUE, val |-> call.chanVal]
    ELSE [ok |-> FALSE, val |-> NoVal]

AwaitOnMain(c, k) ==
    /\ Live /\ pc[c] = "ready"
    /\ k \in Pending(c) /\ calls[k].kind = "async"
    /\ calls[k].tx \in {"sent", "dropped"}
    /\ LET r == RecvOutcome(calls[k]) IN
       IF r.ok
       THEN /\ calls' = [calls EXCEPT ![k].rx = "received",
                                      ![k].outcome = "returned",
                                      ![k].result = r.val]
            /\ UNCHANGED pc
       ELSE \* expect() panics: the task unwinds and drops its other futures
            /\ calls' = [DropFutures(calls, Pending(c) \ {k})
                            EXCEPT ![k].rx = "dropped", ![k].outcome = "panicked"]
            /\ pc' = [pc EXCEPT ![c] = "panicked"]
    /\ UNCHANGED <<platform, assembly, mainPc, queue, running, obs, exited, exitCode, exitThread>>
    /\ UNCHANGED <<rtVars, harnessVars, execVars, criterionVars, userRt>>

\* The caller drops the future before it resolved (a timeout, a select).
DropFuture(c, k) ==
    /\ Live /\ pc[c] = "ready"
    /\ k \in Pending(c) /\ calls[k].kind = "async"
    /\ calls' = DropFutures(calls, {k})
    /\ UNCHANGED <<platform, assembly, mainPc, pc, queue, running, obs, exited, exitCode, exitThread>>
    /\ UNCHANGED <<rtVars, harnessVars, execVars, criterionVars, userRt>>

\* on_main_sync(f): Queue::main().exec_sync(f) (dispatch.rs:35) blocks the
\* calling thread; without affinity f() (dispatch.rs:44). The path taken
\* depends on the platform alone, never on the calling thread.
SyncPathChecked(plat, t) == IF plat = "macos" /\ t # MainThread THEN "enqueue" ELSE "inline"
SyncPath(plat, t) == IF plat = "macos" THEN "enqueue" ELSE "inline"

OnMainSync(c) ==
    /\ Live /\ pc[c] = "ready"
    /\ Len(calls) < MaxCalls
    /\ IF SyncPath(platform, ThreadOf(c)) = "enqueue"
       THEN /\ calls' = Append(calls, NewCall("sync", c))
            /\ queue' = Append(queue, CallItem(Len(calls) + 1))
            /\ pc' = [pc EXCEPT ![c] = "blocked"]
       ELSE /\ calls' = Append(calls, InlineCall("sync", c, Len(calls) + 1))
            /\ UNCHANGED <<queue, pc>>
    /\ UNCHANGED <<platform, assembly, mainPc, running, obs, exited, exitCode, exitThread>>
    /\ UNCHANGED <<rtVars, harnessVars, execVars, criterionVars, userRt>>

\* exec_sync returns once the queue has run the work item.
SyncDoneEarly(call) == call.st \in {"running", "done"}
SyncDone(call) == call.st = "done"

OnMainSyncReturn(c, k) ==
    /\ Live /\ pc[c] = "blocked"
    /\ k \in Pending(c) /\ calls[k].kind = "sync"
    /\ SyncDone(calls[k])
    /\ calls' = [calls EXCEPT ![k].outcome = "returned", ![k].result = calls[k].chanVal]
    /\ pc' = [pc EXCEPT ![c] = "ready"]
    /\ UNCHANGED <<platform, assembly, mainPc, queue, running, obs, exited, exitCode, exitThread>>
    /\ UNCHANGED <<rtVars, harnessVars, execVars, criterionVars, userRt>>

\* The main thread is inside exec_sync, waiting for a work item of its own
\* queue (dispatch.rs:35).
MainWaiting ==
    \E k \in CallIds :
        /\ calls[k].owner = MainThread
        /\ calls[k].kind = "sync"
        /\ ~SyncDone(calls[k])

\* A dispatched closure, which runs on the main thread, calls on_main_sync
\* itself: the same exec_sync (dispatch.rs:35), with the main thread as the
\* caller that waits.
ClosureOnMainSync ==
    /\ Live /\ running # 0 /\ mainPc = "loop" /\ ~MainWaiting
    /\ Len(calls) < MaxCalls
    /\ IF SyncPath(platform, ExecThread(calls[running])) = "enqueue"
       THEN /\ calls' = Append(calls, NewCall("sync", MainThread))
            /\ queue' = Append(queue, CallItem(Len(calls) + 1))
       ELSE /\ calls' = Append(calls, InlineCall("sync", MainThread, Len(calls) + 1))
            /\ UNCHANGED queue
    /\ UNCHANGED <<platform, assembly, mainPc, pc, running, obs, exited, exitCode, exitThread>>
    /\ UNCHANGED <<rtVars, harnessVars, execVars, criterionVars, userRt>>

\* is_main_thread() called from user code.
CallIsMainThread(c) ==
    /\ Live /\ pc[c] = "ready"
    /\ obs' = <<ThreadOf(c), IsMainThread(platform, ThreadOf(c))>>
    /\ UNCHANGED <<platform, assembly, mainPc, pc, queue, running, calls, exited, exitCode, exitThread>>
    /\ UNCHANGED <<rtVars, harnessVars, execVars, criterionVars, userRt>>

\* ------------------------------------------- user code: tasks and trials
\* tokio::spawn / std::thread::spawn from user code starts another caller.
Spawn(c, d) ==
    /\ Live /\ pc[c] = "ready"
    /\ assembly \in {"main", "tokio"} /\ d # 1 /\ pc[d] = "idle"
    /\ pc' = [pc EXCEPT ![d] = "ready"]
    /\ UNCHANGED <<platform, assembly, mainPc, queue, running, calls, obs, exited, exitCode, exitThread>>
    /\ UNCHANGED <<rtVars, harnessVars, execVars, criterionVars, userRt>>

\* exit_main_loop(code) (lib.rs:116-125, 138-141): with affinity the exit is
\* itself a work item of the main queue and the caller parks for good;
\* without it the process exits at once.
ExitMainLoopFlush(c, code) ==
    /\ queue' = <<ExitItem(code)>>
    /\ pc' = [pc EXCEPT ![c] = "parked"]
    /\ UNCHANGED <<exited, exitCode, exitThread>>
ExitMainLoop(c, code) ==
    IF platform = "macos"
    THEN /\ queue' = Append(queue, ExitItem(code))
         /\ pc' = [pc EXCEPT ![c] = "parked"]
         /\ UNCHANGED <<exited, exitCode, exitThread>>
    ELSE /\ exited' = TRUE
         /\ exitCode' = code
         /\ exitThread' = ThreadOf(c)
         /\ pc' = [pc EXCEPT ![c] = "finished"]
         /\ UNCHANGED queue

\* The caller's code ends; futures it still holds are dropped. With affinity
\* the body of #[apple_main::main] is followed by exit_main_loop(0)
\* (macros/src/lib.rs:33-36); without it block_on returns and main with it
\* (macros/src/lib.rs:42-46), which ends the process with code 0; so does
\* the body of #[tokio::main] (examples/tokio_main_test.rs:11-12).
Finish(c) ==
    /\ Live /\ pc[c] = "ready"
    /\ c \notin faulty
    /\ calls' = DropFutures(calls, Pending(c))
    /\ IF assembly = "main" /\ c = 1 /\ platform = "macos"
       THEN ExitMainLoop(c, 0)
       ELSE IF assembly \in {"main", "tokio"} /\ c = 1
       THEN /\ pc' = [pc EXCEPT ![c] = "finished"]
            /\ exited' = TRUE
            /\ exitCode' = 0
            /\ exitThread' = MainThread
            /\ UNCHANGED queue
       ELSE /\ pc' = [pc EXCEPT ![c] = "finished"]
            /\ UNCHANGED <<queue, exited, exitCode, exitThread>>
    /\ UNCHANGED <<platform, assembly, mainPc, running, obs>>
    /\ UNCHANGED <<rtVars, harnessVars, execVars, criterionVars, userRt>>

\* The cases the trials run, and the trials that ended one way or the other.
TrialCases == {trials[i] : i \in 1..Len(trials)}
EndedAny(i) == \E j \in 1..Len(trials) : pc[trials[j]] \in {"finished", "panicked"}
Ended(i) == pc[trials[i]] \in {"finished", "panicked"}
Passed == {i \in 1..Len(trials) : pc[trials[i]] = "finished"}
Failed == {i \in 1..Len(trials) : pc[trials[i]] = "panicked"}

\* Conclusion::exit_code: 101 if a trial failed, else 0.
ConclusionCodeZero(numFailed) == 0
ConclusionCode(numFailed) == IF numFailed > 0 THEN 101 ELSE 0

\* libtest_mimic::run(&args, tests).exit() (test_harness.rs:39, 56): once
\* every trial has ended the runner prints its conclusion and calls
\* process::exit itself, on the thread that called run.
HarnessExit ==
    /\ Live /\ assembly = "harness"
    /\ mainPc \in {"spawned", "loop", "run_tests"}
    /\ \A i \in 1..Len(trials) : Ended(i)
    /\ report' = [done |-> TRUE, passed |-> Cardinality(Passed),
                  failed |-> Cardinality(Failed)]
    /\ exited' = TRUE
    /\ exitCode' = ConclusionCode(Cardinality(Failed))
    /\ exitThread' = HarnessThread(platform)
    /\ UNCHANGED <<platform, assembly, mainPc, pc, queue, running, calls, obs>>
    /\ UNCHANGED <<registry, trials, reads, faulty, testThreads>>
    /\ UNCHANGED <<rtVars, execVars, criterionVars, userRt>>

\* The body panics (a failing assertion, an unwrap): the task or trial
\* unwinds and drops the futures it holds. A trial's panic is caught by the
\* runner (libtest_mimic::run, test_harness.rs:39, 56); a panic of a spawned
\* task is caught by the executor (macros/src/lib.rs:33); the body under
\* block_on unwinds through main (macros/src/lib.rs:46), which ends the
\* process with code 101.
PanicUnwindsMain(plat, asm, c) ==
    \/ plat = "other" /\ asm = "main" /\ c = 1
    \/ asm = "tokio" /\ c = 1

BodyPanic(c) ==
    /\ Live /\ pc[c] = "ready"
    /\ c \in faulty
    /\ calls' = DropFutures(calls, Pending(c))
    /\ pc' = [pc EXCEPT ![c] = "panicked"]
    /\ IF PanicUnwindsMain(platform, assembly, c)
       THEN /\ exited' = TRUE
            /\ exitCode' = 101
            /\ exitThread' = MainThread
            /\ mainPc' = "panicked"
       ELSE UNCHANGED <<exited, exitCode, exitThread, mainPc>>
    /\ UNCHANGED <<platform, assembly, queue, running, obs>>
    /\ UNCHANGED <<rtVars, harnessVars, execVars, criterionVars, userRt>>

\* ------------------------------------------------------ the main thread
\* The assemblies whose main thread calls init_runtime itself.
MainInits(plat, asm) ==
    \/ asm = "harness"
    \/ asm = "main" /\ plat = "macos"
    \/ asm = "criterion" /\ plat = "other"

\* fn main(): init_runtime() (macros/src/lib.rs:32, test_harness.rs:36, 55,
\* lib.rs:234); without affinity #[apple_main::main] builds a runtime of its
\* own (:42-45), and so does #[tokio::main].
MainInitRuntime ==
    /\ Live /\ mainPc = (IF assembly = "harness" THEN "collected" ELSE "start")
    /\ MainInits(platform, assembly)
    /\ InitRuntimeEnter(MainThread)
    /\ mainPc' = IF rtPc'[MainThread] = "building" THEN "init_runtime" ELSE "inited"
    /\ UNCHANGED <<platform, assembly, pc, queue, running, calls, obs, exited, exitCode, exitThread>>
    /\ UNCHANGED <<harnessVars, execVars, criterionVars, userRt>>

MainBuildRuntime ==
    /\ Live /\ mainPc = "init_runtime"
    /\ \E ok \in BOOLEAN :
        /\ BuildRuntime(MainThread, ok)
        /\ mainPc' = IF ok THEN "inited" ELSE "panicked"
        /\ exited' = ~ok
        /\ exitCode' = IF ok THEN exitCode ELSE 101
        /\ exitThread' = IF ok THEN exitThread ELSE MainThread
    /\ UNCHANGED <<platform, assembly, pc, queue, running, calls, obs>>
    /\ UNCHANGED <<harnessVars, execVars, criterionVars, userRt>>

MainLocalBuild ==
    /\ Live /\ mainPc = "start"
    /\ (platform = "other" /\ assembly = "main") \/ assembly = "tokio"
    /\ \E ok \in BOOLEAN :
        /\ mainPc' = IF ok THEN "inited" ELSE "panicked"
        /\ exited' = ~ok
        /\ exitCode' = IF ok THEN exitCode ELSE 101
        /\ exitThread' = IF ok THEN exitThread ELSE MainThread
    /\ UNCHANGED <<platform, assembly, pc, queue, running, calls, obs>>
    /\ UNCHANGED <<rtVars, harnessVars, execVars, criterionVars, userRt>>

\* inventory::iter::<TestCase>.into_iter().map(..).collect()
\* (test_harness.rs:12-23): one Trial per TestCase, in the registry's order.
CollectTestsTwice(reg) == reg \o reg
CollectTests(reg) == reg

\* run_tests: let tests = collect_tests() (test_harness.rs:34, 53).
MainCollectTests ==
    /\ Live /\ mainPc = "start" /\ assembly = "harness"
    /\ trials' = CollectTests(registry)
    /\ reads' = reads + 1
    /\ mainPc' = "collected"
    /\ UNCHANGED <<platform, assembly, pc, queue, running, calls, obs, exited, exitCode, exitThread>>
    /\ UNCHANGED <<registry, faulty, testThreads, report>>
    /\ UNCHANGED <<rtVars, execVars, criterionVars, userRt>>

\* rt.spawn(async { body; exit_main_loop(0) }) (macros/src/lib.rs:33-36),
\* rt.spawn(async { run(&args, tests).exit() }) (test_harness.rs:38-40),
\* .block_on(async body) (macros/src/lib.rs:46, and #[tokio::main]),
\* run(&args, tests) (test_harness.rs:56): user code starts.
MainSpawn ==
    /\ Live /\ mainPc = "inited"
    /\ assembly \in {"main", "tokio", "harness"}
    /\ pc' = IF assembly \in {"main", "tokio"}
             THEN [pc EXCEPT ![1] = "ready"]
             ELSE IF testThreads = "pool"
             THEN [c \in Callers |-> IF c \in TrialCases THEN "ready" ELSE pc[c]]
             ELSE pc
    /\ mainPc' = IF assembly = "tokio" THEN "block_on"
                 ELSE IF platform = "macos" THEN "spawned"
                 ELSE IF assembly = "main" THEN "block_on" ELSE "run_tests"
    /\ UNCHANGED <<platform, assembly, queue, running, calls, obs, exited, exitCode, exitThread>>
    /\ UNCHANGED <<rtVars, harnessVars, execVars, criterionVars, userRt>>

\* run_main_loop(): CFRunLoopRun() (lib.rs:105-114); in criterion_main!
\* CFRunLoop::run_current() (lib.rs:228).
MainRunLoop ==
    /\ Live /\ mainPc = "spawned"
    /\ mainPc' = "loop"
    /\ UNCHANGED <<platform, assembly, pc, queue, running, calls, obs, exited, exitCode, exitThread>>
    /\ UNCHANGED <<rtVars, harnessVars, execVars, criterionVars, userRt>>

\* What is left of the queue once its head was taken.
Rest(q) == Tail(q)

\* The main queue is drained by the main thread's run loop, and only while
\* that loop runs (lib.rs:111, 228).
DrainingAlways(m) == TRUE
Draining(m) == m = "loop"

\* The main queue is serial: it takes its next item only when the closure
\* it was running has returned.
CanTakeAlways(r) == TRUE
CanTake(r) == r = 0

\* CFRunLoop::get_current().stop() inside a closure of the run loop
\* (lib.rs:218): the loop ends and run_current() returns (lib.rs:228).
StopLoopRestart(m) == "spawned"
StopLoop(m) == "stopped"

\* The run loop takes the head of the main queue and starts its closure;
\* the exit item is process::exit(code) (lib.rs:118-120), the signal item
\* let _ = tx.send(()) (lib.rs:224), the stop item CFRunLoop's stop
\* (lib.rs:218).
MainDequeue ==
    /\ Live /\ Draining(mainPc) /\ ~MainWaiting
    /\ CanTake(running) /\ queue # <<>>
    /\ queue' = Rest(queue)
    /\ LET item == Head(queue) IN
       IF item.type = "call"
       THEN /\ running' = item.id
            /\ calls' = [calls EXCEPT
                    ![item.id].st = "running",
                    ![item.id].execThread = ExecThread(calls[item.id]),
                    ![item.id].sawMain =
                        IsMainThread(platform, ExecThread(calls[item.id])),
                    ![item.id].execCount = @ + 1]
            /\ UNCHANGED <<exited, exitCode, exitThread, mainPc, startCh>>
       ELSE IF item.type = "exit"
       THEN /\ exited' = TRUE
            /\ exitCode' = item.code
            /\ exitThread' = MainThread
            /\ UNCHANGED <<running, calls, mainPc, startCh>>
       ELSE IF item.type = "signal"
       THEN /\ startCh' = "sent"
            /\ UNCHANGED <<running, calls, exited, exitCode, exitThread, mainPc>>
       ELSE /\ mainPc' = StopLoop(mainPc)
            /\ UNCHANGED <<running, calls, exited, exitCode, exitThread, startCh>>
    /\ UNCHANGED <<platform, assembly, pc, obs>>
    /\ UNCHANGED <<rtVars, harnessVars, execVars, benchPc, userRt>>

\* let _ = tx.send(result) (dispatch.rs:11): the value is delivered if the
\* receiver still exists; otherwise send returns Err and the error is ignored.
SendOutcomeUnwrap(call) == IF call.rx = "alive" THEN "delivered" ELSE "panic"
SendOutcome(call) == IF call.rx = "alive" THEN "delivered" ELSE "discarded"

\* The value put on the channel: let result = f(); tx.send(result).
SentValueDefault(v) == NoVal
SentValue(v) == v

\* The closure returns: result = f(), then the send (dispatch.rs:10-11); for
\* exec_sync the result is handed back to the blocked caller.
MainFinish ==
    /\ Live /\ running # 0 /\ mainPc = "loop" /\ ~MainWaiting
    /\ LET k == running
           call == calls[k]
           v == ValueOf(k)
           how == IF call.kind = "sync" THEN "delivered" ELSE SendOutcome(call)
       IN
       /\ calls' = [calls EXCEPT
               ![k].st = "done",
               ![k].produced = v,
               ![k].tx = IF how = "delivered" THEN "sent" ELSE "dropped",
               ![k].chanVal = IF how = "delivered" THEN SentValue(v) ELSE NoVal,
               ![k].sendCount = IF how = "delivered" THEN @ + 1 ELSE @]
       /\ mainPc' = IF how = "panic" THEN "panicked" ELSE mainPc
       /\ exited' = (how = "panic")
       /\ exitCode' = IF how = "panic" THEN 101 ELSE exitCode
       /\ exitThread' = IF how = "panic" THEN MainThread ELSE exitThread
    /\ running' = 0
    /\ UNCHANGED <<platform, assembly, pc, queue, obs>>
    /\ UNCHANGED <<rtVars, harnessVars, execVars, criterionVars, userRt>>

\* ------------------------------------------------------- the specification
Init ==
    /\ platform \in {"macos", "other"}
    /\ assembly \in {"main", "harness"}
    /\ mainPc = "start"
    /\ pc = [c \in Callers |-> "idle"]
    /\ queue = <<>>
    /\ running = 0
    /\ calls = <<>>
    /\ obs = <<>>
    /\ exited = FALSE
    /\ exitCode = 0
    /\ exitThread = NoThread
    /\ RtInit
    /\ registry = (IF assembly = "harness" THEN [i \in 1..NumCallers |-> i] ELSE <<>>)
    /\ trials = <<>>
    /\ reads = 0
    /\ faulty = {}
    /\ testThreads = "pool"
    /\ report = NoReport
    /\ workers = [w \in Workers |-> 0]
    /\ awaiting = [c \in Callers |-> NoAwait]
    /\ benchPc = "none"
    /\ startCh = "none"
    /\ userRt = [c \in Callers |-> "none"]

MainStep ==
    \/ MainCollectTests
    \/ MainInitRuntime
    \/ MainBuildRuntime
    \/ MainLocalBuild
    \/ MainSpawn
    \/ MainRunLoop
    \/ MainDequeue
    \/ MainFinish

CallerStep(c) ==
    \/ OnMain(c)
    \/ OnMainSync(c)
    \/ Finish(c)
    \/ \E d \in Callers : Spawn(c, d)
    \/ \E k \in 1..MaxCalls :
        \/ AwaitOnMain(c, k)
        \/ DropFuture(c, k)
        \/ OnMainSyncReturn(c, k)

Next ==
    \/ MainStep
    \/ \E c \in Callers : CallerStep(c)
    \/ HarnessExit

Spec == Init /\ [][Next]_vars

\* The main thread is an OS thread: it is scheduled whenever it can step.
FairSpec == Spec /\ WF_vars(MainStep)

\* The main thread is an OS thread; the executor resumes a task whose
\* awaited channel has resolved; a thread blocked in exec_sync resumes when
\* exec_sync returns.
FairCallers ==
    /\ Spec
    /\ WF_vars(MainStep)
    /\ \A c \in Callers : \A k \in 1..MaxCalls :
          WF_vars(AwaitOnMain(c, k)) /\ WF_vars(OnMainSyncReturn(c, k))

\* ------------------------------------------------ a queue that drops work
\* The platform releases a pending work item without running it (the queue
\* is torn down): the closure is dropped, and with it the sender it owns.
RemoveAt(q, i) == SubSeq(q, 1, i - 1) \o SubSeq(q, i + 1, Len(q))

QueueDiscard ==
    /\ Live
    /\ \E i \in 1..Len(queue) :
        /\ queue[i].type = "call"
        /\ calls[queue[i].id].kind = "async"
        /\ queue' = RemoveAt(queue, i)
        /\ calls' = [calls EXCEPT ![queue[i].id].st = "discarded",
                                  ![queue[i].id].tx = "dropped"]
    /\ UNCHANGED <<platform, assembly, mainPc, pc, running, obs, exited, exitCode, exitThread>>
    /\ UNCHANGED <<rtVars, harnessVars, execVars, criterionVars, userRt>>

NextTeardown == Next \/ QueueDiscard

SpecTeardown == Init /\ [][NextTeardown]_vars

\* ------------------------------------- a closure that dispatches to itself
\* The same program, with dispatched closures that call on_main_sync.
NextMisuse == Next \/ ClosureOnMainSync

SpecMisuse == Init /\ [][NextMisuse]_vars

\* --------------------------------------------- user code asks the oracle
\* The same program, with user code also calling is_main_thread().
NextOracle == Next \/ \E c \in Callers : CallIsMainThread(c)

SpecOracle == Init /\ [][NextOracle]_vars

\* ------------------------------------------- the harness and its test cases
\* Runtime::block_on (runtime.rs:22-24) panics on a thread that is driving a
\* task of the executor ("Cannot start a runtime from within a runtime"); the
\* task run_tests spawns (test_harness.rs:38) occupies such a thread.
BlockOnAllowedAnywhere(plat, t) == TRUE
BlockOnAllowed(plat, t) == ~(plat = "macos" /\ t = RunnerThread)

\* --test-threads=1: libtest_mimic::run (test_harness.rs:39, 56) runs the
\* trials one after the other, in the order of the list, on the thread that
\* called it. The trial is crate::block_on(func()) (test_harness.rs:18): where
\* block_on panics the body never starts and the trial has failed.
RunTrial ==
    /\ Live /\ assembly = "harness" /\ testThreads = "one"
    /\ mainPc \in {"spawned", "loop", "run_tests"}
    /\ \E i \in 1..Len(trials) :
        /\ pc[trials[i]] = "idle"
        /\ \A j \in 1..(i - 1) : Ended(j)
        /\ pc' = [pc EXCEPT ![trials[i]] =
                    IF BlockOnAllowed(platform, HarnessThread(platform))
                    THEN "ready" ELSE "panicked"]
    /\ UNCHANGED <<platform, assembly, mainPc, queue, running, calls, obs, exited, exitCode, exitThread>>
    /\ UNCHANGED <<rtVars, harnessVars, execVars, criterionVars, userRt>>

\* inventory::submit! (macros/src/lib.rs:156-159): a constructor adds a
\* TestCase to the registry. The constructors that ran before main built the
\* initial registry; one that runs late (a library loaded while the harness
\* runs) adds its case after collect_tests has read the registry.
Registered == {registry[i] : i \in 1..Len(registry)}

Register(c) ==
    /\ Live /\ assembly = "harness"
    /\ reads > 0
    /\ c \notin Registered
    /\ registry' = Append(registry, c)
    /\ UNCHANGED <<bridgeVars, rtVars, execVars, criterionVars, userRt>>
    /\ UNCHANGED <<trials, reads, faulty, testThreads, report>>

\* The registries the constructors can have built before main: every order
\* of every set of cases.
Registries ==
    UNION {{q \in [1..n -> Callers] : \A i, j \in 1..n : i # j => q[i] # q[j]} :
           n \in 0..NumCallers}

InitHarness ==
    /\ platform \in {"macos", "other"}
    /\ assembly = "harness"
    /\ mainPc = "start"
    /\ pc = [c \in Callers |-> "idle"]
    /\ queue = <<>>
    /\ running = 0
    /\ calls = <<>>
    /\ obs = <<>>
    /\ exited = FALSE
    /\ exitCode = 0
    /\ exitThread = NoThread
    /\ RtInit
    /\ registry \in Registries
    /\ trials = <<>>
    /\ reads = 0
    /\ faulty \in SUBSET Registered
    /\ testThreads \in {"pool", "one"}
    /\ report = NoReport
    /\ workers = [w \in Workers |-> 0]
    /\ awaiting = [c \in Callers |-> NoAwait]
    /\ benchPc = "none"
    /\ startCh = "none"
    /\ userRt = [c \in Callers |-> "none"]

TrialStep(c) ==
    \/ OnMain(c)
    \/ OnMainSync(c)
    \/ Finish(c)
    \/ BodyPanic(c)
    \/ \E k \in 1..MaxCalls :
        \/ AwaitOnMain(c, k)
        \/ DropFuture(c, k)
        \/ OnMainSyncReturn(c, k)

HarnessMainStep ==
    \/ MainCollectTests
    \/ MainInitRuntime
    \/ MainBuildRuntime
    \/ MainSpawn
    \/ MainRunLoop
    \/ MainDequeue
    \/ MainFinish

NextHarness ==
    \/ HarnessMainStep
    \/ \E c \in Callers : TrialStep(c)
    \/ \E c \in Callers : Register(c)
    \/ RunTrial
    \/ HarnessExit

SpecHarness == InitHarness /\ [][NextHarness]_vars

\* The harness over a registry that is complete before run_tests reads it
\* and whose cases all pass unless a dispatch panics: what is left to vary is
\* the registration order and the cases registered late.
InitRegistry ==
    /\ InitHarness
    /\ faulty = {}
    /\ testThreads = "pool"

NextRegistry ==
    \/ HarnessMainStep
    \/ \E c \in Callers :
        \/ OnMain(c)
        \/ OnMainSync(c)
        \/ Finish(c)
        \/ \E k \in 1..MaxCalls :
            \/ AwaitOnMain(c, k)
            \/ DropFuture(c, k)
            \/ OnMainSyncReturn(c, k)
    \/ \E c \in Callers : Register(c)
    \/ HarnessExit

SpecRegistry == InitRegistry /\ [][NextRegistry]_vars

\* The harness over the registry in declaration order, with every choice of
\* failing cases and of --test-threads.
InitTrials ==
    /\ InitHarness
    /\ registry = [i \in 1..NumCallers |-> i]

NextTrials ==
    \/ HarnessMainStep
    \/ \E c \in Callers : TrialStep(c)
    \/ RunTrial
    \/ HarnessExit

\* The main thread and the thread of the runner are OS threads.
FairTrials ==
    /\ InitTrials
    /\ [][NextTrials]_vars
    /\ WF_vars(HarnessMainStep)
    /\ WF_vars(HarnessExit)
    /\ WF_vars(RunTrial)

\* ----------------------------------------- the entry point and its body
\* exit_main_loop, after the request: loop { park() } (lib.rs:122-124). A
\* park() that returns (a spurious wake-up, an unpark) is followed by the
\* next park().
ParkOnce(c) == [pc EXCEPT ![c] = "finished"]
ParkLoop(c) == [pc EXCEPT ![c] = "parked"]

Unpark(c) ==
    /\ Live /\ pc[c] = "parked"
    /\ pc' = [pc EXCEPT ![c] = "unparked"]
    /\ UNCHANGED <<platform, assembly, mainPc, queue, running, calls, obs, exited, exitCode, exitThread>>
    /\ UNCHANGED <<rtVars, harnessVars, execVars, criterionVars, userRt>>

Repark(c) ==
    /\ Live /\ pc[c] = "unparked"
    /\ pc' = ParkLoop(c)
    /\ UNCHANGED <<platform, assembly, mainPc, queue, running, calls, obs, exited, exitCode, exitThread>>
    /\ UNCHANGED <<rtVars, harnessVars, execVars, criterionVars, userRt>>

InitEntry ==
    /\ platform \in {"macos", "other"}
    /\ assembly = "main"
    /\ mainPc = "start"
    /\ pc = [c \in Callers |-> "idle"]
    /\ queue = <<>>
    /\ running = 0
    /\ calls = <<>>
    /\ obs = <<>>
    /\ exited = FALSE
    /\ exitCode = 0
    /\ exitThread = NoThread
    /\ RtInit
    /\ registry = <<>>
    /\ trials = <<>>
    /\ reads = 0
    /\ faulty \in SUBSET Callers
    /\ testThreads = "pool"
    /\ report = NoReport
    /\ workers = [w \in Workers |-> 0]
    /\ awaiting = [c \in Callers |-> NoAwait]
    /\ benchPc = "none"
    /\ startCh = "none"
    /\ userRt = [c \in Callers |-> "none"]

EntryMainStep ==
    \/ MainInitRuntime
    \/ MainBuildRuntime
    \/ MainLocalBuild
    \/ MainSpawn
    \/ MainRunLoop
    \/ MainDequeue
    \/ MainFinish

\* The program with bodies and tasks that may panic.
TaskStep(c) ==
    \/ CallerStep(c)
    \/ BodyPanic(c)

NextEntry ==
    \/ EntryMainStep
    \/ \E c \in Callers : TaskStep(c)

SpecEntry == InitEntry /\ [][NextEntry]_vars

\* The program with its parked threads woken at any time.
NextPark ==
    \/ Next
    \/ \E c \in Callers : Unpark(c) \/ Repark(c)

\* The main thread is an OS thread: it is scheduled whenever it can step.
FairPark == Init /\ [][NextPark]_vars /\ WF_vars(MainStep)

\* ------------------------------------------- the executor and its workers
\* The tasks of the program as the executor runs them: a task steps only
\* while a worker thread carries it.
OnWorker(c) == \E w \in Workers : workers[w] = c
Suspended(c) == awaiting[c] # NoAwait

\* The channel of a call has resolved: a value was sent, or the sender is
\* gone; this is what wakes the task that awaits it.
Resolved(k) == calls[k].tx \in {"sent", "dropped"}

\* A free worker takes a task that can run: a fresh one, or one whose
\* awaited channel has resolved.
Schedule(w, c) ==
    /\ Live /\ workers[w] = 0
    /\ pc[c] = "ready" /\ ~OnWorker(c)
    /\ Suspended(c) => Resolved(awaiting[c].call)
    /\ workers' = [workers EXCEPT ![w] = c]
    /\ awaiting' = [awaiting EXCEPT ![c] = NoAwait]
    /\ UNCHANGED <<bridgeVars, rtVars, harnessVars, criterionVars, userRt>>

\* rx.await (dispatch.rs:14) on a channel that has not resolved: the task
\* yields, and its worker is free for other tasks.
CarrierAfterAwaitHeld(w, c) == c
CarrierAfterAwait(w, c) == 0

AwaitSuspend(w, k) ==
    /\ Live /\ workers[w] # 0
    /\ LET c == workers[w] IN
       /\ pc[c] = "ready"
       /\ k \in Pending(c) /\ calls[k].kind = "async"
       /\ ~Resolved(k)
       /\ awaiting' = [awaiting EXCEPT ![c] = [call |-> k, carrier |-> w]]
       /\ workers' = [workers EXCEPT ![w] = CarrierAfterAwait(w, c)]
    /\ UNCHANGED <<bridgeVars, rtVars, harnessVars, criterionVars, userRt>>

\* The task has ended: its worker goes back for the next one.
Release(w) ==
    /\ Live /\ workers[w] # 0
    /\ pc[workers[w]] \in {"finished", "panicked"}
    /\ workers' = [workers EXCEPT ![w] = 0]
    /\ UNCHANGED awaiting
    /\ UNCHANGED <<bridgeVars, rtVars, harnessVars, criterionVars, userRt>>

\* A step of the task a worker carries.
WorkerStep(w) ==
    /\ workers[w] # 0
    /\ ~Suspended(workers[w])
    /\ CallerStep(workers[w])

InitExecutor ==
    /\ platform = "macos"
    /\ assembly = "main"
    /\ mainPc = "start"
    /\ pc = [c \in Callers |-> "idle"]
    /\ queue = <<>>
    /\ running = 0
    /\ calls = <<>>
    /\ obs = <<>>
    /\ exited = FALSE
    /\ exitCode = 0
    /\ exitThread = NoThread
    /\ RtInit
    /\ registry = <<>>
    /\ trials = <<>>
    /\ reads = 0
    /\ faulty = {}
    /\ testThreads = "pool"
    /\ report = NoReport
    /\ workers = [w \in Workers |-> 0]
    /\ awaiting = [c \in Callers |-> NoAwait]
    /\ benchPc = "none"
    /\ startCh = "none"
    /\ userRt = [c \in Callers |-> "none"]

ExecutorMainStep ==
    \/ MainInitRuntime
    \/ MainBuildRuntime
    \/ MainSpawn
    \/ MainRunLoop
    \/ MainDequeue
    \/ MainFinish

NextExecutor ==
    \/ ExecutorMainStep
    \/ \E w \in Workers :
        \/ \E c \in Callers : Schedule(w, c)
        \/ \E k \in 1..MaxCalls : AwaitSuspend(w, k)
        \/ Release(w)
        \/ WorkerStep(w)

SpecExecutor == InitExecutor /\ [][NextExecutor]_vars

\* ----------------------------------------- criterion_main!: benchmarks
\* The runtime-API thread index of the thread that runs Criterion.
BenchRt(plat) == IF plat = "macos" THEN 1 ELSE MainThread

\* fn main() with affinity: mpsc::channel(), then thread::spawn of the
\* thread that runs Criterion (lib.rs:200-220).
MainCriterionSpawn ==
    /\ Live /\ mainPc = "start"
    /\ assembly = "criterion" /\ platform = "macos"
    /\ startCh' = "open"
    /\ benchPc' = "recv"
    /\ mainPc' = "thread_spawned"
    /\ UNCHANGED <<platform, assembly, pc, queue, running, calls, obs, exited, exitCode, exitThread>>
    /\ UNCHANGED <<rtVars, harnessVars, execVars, userRt>>

\* Queue::main().exec_async(move || { let _ = tx.send(()); }) (lib.rs:223-225).
MainCriterionSignal ==
    /\ Live /\ mainPc = "thread_spawned"
    /\ queue' = Append(queue, SignalItem)
    /\ mainPc' = "spawned"
    /\ UNCHANGED <<platform, assembly, pc, running, calls, obs, exited, exitCode, exitThread>>
    /\ UNCHANGED <<rtVars, harnessVars, execVars, criterionVars, userRt>>

\* Without affinity the main thread runs Criterion itself, after
\* init_runtime() (lib.rs:234-238).
MainCriterionGroups ==
    /\ Live /\ mainPc = "inited"
    /\ assembly = "criterion" /\ platform = "other"
    /\ mainPc' = "groups"
    /\ benchPc' = "groups"
    /\ UNCHANGED <<platform, assembly, pc, queue, running, calls, obs, exited, exitCode, exitThread>>
    /\ UNCHANGED <<rtVars, harnessVars, execVars, startCh, userRt>>

\* fn main() returns: run_current() has returned (lib.rs:228-229), or the
\* final summary is done (lib.rs:238-239). The process ends with code 0.
MainReturn ==
    /\ Live /\ assembly = "criterion"
    /\ \/ platform = "macos" /\ mainPc = "stopped"
       \/ platform = "other" /\ mainPc = "groups" /\ benchPc = "summarized"
    /\ mainPc' = "returned"
    /\ exited' = TRUE
    /\ exitCode' = 0
    /\ exitThread' = MainThread
    /\ UNCHANGED <<platform, assembly, pc, queue, running, calls, obs>>
    /\ UNCHANGED <<rtVars, harnessVars, execVars, criterionVars, userRt>>

\* let _ = rx.recv() (lib.rs:205): returns once a value was sent, or once the
\* sender is gone.
RecvReadyAlways(ch) == TRUE
RecvReady(ch) == ch \in {"sent", "closed"}

BenchRecv ==
    /\ Live /\ benchPc = "recv"
    /\ RecvReady(startCh)
    /\ benchPc' = "init"
    /\ UNCHANGED <<bridgeVars, rtVars, harnessVars, execVars, startCh, userRt>>

\* $crate::init_runtime() on the spawned thread (lib.rs:208).
BenchInitRuntime ==
    /\ Live /\ benchPc = "init"
    /\ InitRuntimeEnter(BenchRt(platform))
    /\ benchPc' = IF rtPc'[BenchRt(platform)] = "building" THEN "building" ELSE "groups"
    /\ UNCHANGED <<bridgeVars, harnessVars, execVars, startCh, userRt>>

\* A failed build panics the spawned thread; the process goes on.
BenchBuildRuntime ==
    /\ Live /\ benchPc = "building"
    /\ \E ok \in BOOLEAN :
        /\ BuildRuntime(BenchRt(platform), ok)
        /\ benchPc' = IF ok THEN "groups" ELSE "panicked"
    /\ UNCHANGED <<bridgeVars, harnessVars, execVars, startCh, userRt>>

\* $($group();)+ (lib.rs:211, 237): the groups run one after the other, in
\* the order of the list, on the thread that runs Criterion.
GroupStart(c) ==
    /\ Live /\ assembly = "criterion" /\ benchPc = "groups"
    /\ pc[c] = "idle"
    /\ \A d \in Callers : d < c => pc[d] = "finished"
    /\ pc' = [pc EXCEPT ![c] = "ready"]
    /\ UNCHANGED <<platform, assembly, mainPc, queue, running, calls, obs, exited, exitCode, exitThread>>
    /\ UNCHANGED <<rtVars, harnessVars, execVars, criterionVars, userRt>>

\* Criterion::default().final_summary() (lib.rs:214, 238).
BenchSummary ==
    /\ Live /\ assembly = "criterion" /\ benchPc = "groups"
    /\ \A c \in Callers : pc[c] = "finished"
    /\ benchPc' = "summarized"
    /\ UNCHANGED <<bridgeVars, rtVars, harnessVars, execVars, startCh, userRt>>

\* Queue::main().exec_async(|| CFRunLoop::get_current().stop()) (lib.rs:217-219).
BenchStop ==
    /\ Live /\ platform = "macos" /\ benchPc = "summarized"
    /\ queue' = Append(queue, StopItem)
    /\ benchPc' = "done"
    /\ UNCHANGED <<platform, assembly, mainPc, pc, running, calls, obs, exited, exitCode, exitThread>>
    /\ UNCHANGED <<rtVars, harnessVars, execVars, startCh, userRt>>

InitCriterion ==
    /\ platform \in {"macos", "other"}
    /\ assembly = "criterion"
    /\ mainPc = "start"
    /\ pc = [c \in Callers |-> "idle"]
    /\ queue = <<>>
    /\ running = 0
    /\ calls = <<>>
    /\ obs = <<>>
    /\ exited = FALSE
    /\ exitCode = 0
    /\ exitThread = NoThread
    /\ RtInit
    /\ registry = <<>>
    /\ trials = <<>>
    /\ reads = 0
    /\ faulty = {}
    /\ testThreads = "pool"
    /\ report = NoReport
    /\ workers = [w \in Workers |-> 0]
    /\ awaiting = [c \in Callers |-> NoAwait]
    /\ benchPc = "none"
    /\ startCh = "none"
    /\ userRt = [c \in Callers |-> "none"]

CriterionMainStep ==
    \/ MainCriterionSpawn
    \/ MainCriterionSignal
    \/ MainInitRuntime
    \/ MainBuildRuntime
    \/ MainCriterionGroups
    \/ MainRunLoop
    \/ MainDequeue
    \/ MainFinish
    \/ MainReturn

BenchStep ==
    \/ BenchRecv
    \/ BenchInitRuntime
    \/ BenchBuildRuntime
    \/ BenchSummary
    \/ BenchStop

\* A benchmark group: on_main_sync, and on_main under block_on.
GroupStep(c) ==
    \/ GroupStart(c)
    \/ OnMain(c)
    \/ OnMainSync(c)
    \/ Finish(c)
    \/ \E k \in 1..MaxCalls :
        \/ AwaitOnMain(c, k)
        \/ DropFuture(c, k)
        \/ OnMainSyncReturn(c, k)

NextCriterion ==
    \/ CriterionMainStep
    \/ BenchStep
    \/ \E c \in Callers : GroupStep(c)

SpecCriterion == InitCriterion /\ [][NextCriterion]_vars

\* The main thread is an OS thread: it is scheduled whenever it can step.
FairCriterion == SpecCriterion /\ WF_vars(CriterionMainStep)

\* ------------------------------------- a main that never runs the loop
\* The entry point next to a program whose main is #[tokio::main]
\* (examples/tokio_main_test.rs:11-12): the main thread drives the body with
\* block_on and never runs an event loop.
InitTokio ==
    /\ platform \in {"macos", "other"}
    /\ assembly \in {"main", "tokio"}
    /\ mainPc = "start"
    /\ pc = [c \in Callers |-> "idle"]
    /\ queue = <<>>
    /\ running = 0
    /\ calls = <<>>
    /\ obs = <<>>
    /\ exited = FALSE
    /\ exitCode = 0
    /\ exitThread = NoThread
    /\ RtInit
    /\ registry = <<>>
    /\ trials = <<>>
    /\ reads = 0
    /\ faulty = {}
    /\ testThreads = "pool"
    /\ report = NoReport
    /\ workers = [w \in Workers |-> 0]
    /\ awaiting = [c \in Callers |-> NoAwait]
    /\ benchPc = "none"
    /\ startCh = "none"
    /\ userRt = [c \in Callers |-> "none"]

NextTokio ==
    \/ EntryMainStep
    \/ \E c \in Callers : CallerStep(c)

SpecTokio == InitTokio /\ [][NextTokio]_vars

\* ------------------------------------------------- the three assemblies
\* The programs the crate assembles: the entry point, the harness and the
\* Criterion main.
InitAssemblies ==
    /\ platform \in {"macos", "other"}
    /\ assembly \in {"main", "harness", "criterion"}
    /\ mainPc = "start"
    /\ pc = [c \in Callers |-> "idle"]
    /\ queue = <<>>
    /\ running = 0
    /\ calls = <<>>
    /\ obs = <<>>
    /\ exited = FALSE
    /\ exitCode = 0
    /\ exitThread = NoThread
    /\ RtInit
    /\ registry = (IF assembly = "harness" THEN [i \in 1..NumCallers |-> i] ELSE <<>>)
    /\ trials = <<>>
    /\ reads = 0
    /\ faulty = {}
    /\ testThreads = "pool"
    /\ report = NoReport
    /\ workers = [w \in Workers |-> 0]
    /\ awaiting = [c \in Callers |-> NoAwait]
    /\ benchPc = "none"
    /\ startCh = "none"
    /\ userRt = [c \in Callers |-> "none"]

AssembliesMainStep ==
    \/ MainStep
    \/ MainCriterionSpawn
    \/ MainCriterionSignal
    \/ MainCriterionGroups
    \/ MainReturn

NextAssemblies ==
    \/ AssembliesMainStep
    \/ BenchStep
    \/ \E c \in Callers : CallerStep(c) \/ GroupStart(c)
    \/ HarnessExit

SpecAssemblies == InitAssemblies /\ [][NextAssemblies]_vars

\* The main thread is an OS thread: it is scheduled whenever it can step.
FairAssemblies == SpecAssemblies /\ WF_vars(AssembliesMainStep)

\* ---------------------------------------- user code asks for the runtime
\* runtime() called from user code (runtime.rs:16-20): the stored instance,
\* or the fatal "runtime not initialized", which unwinds the caller.
UserRuntime(c) ==
    /\ Live /\ pc[c] = "ready"
    /\ IF RuntimeSlot(once, RUNTIME) # NoRuntime
       THEN /\ userRt' = [userRt EXCEPT ![c] = "ok"]
            /\ UNCHANGED <<pc, calls, exited, exitCode, exitThread, mainPc>>
       ELSE /\ userRt' = [userRt EXCEPT ![c] = "fatal"]
            /\ calls' = DropFutures(calls, Pending(c))
            /\ pc' = [pc EXCEPT ![c] = "panicked"]
            /\ IF PanicUnwindsMain(platform, assembly, c)
               THEN /\ exited' = TRUE
                    /\ exitCode' = 101
                    /\ exitThread' = MainThread
                    /\ mainPc' = "panicked"
               ELSE UNCHANGED <<exited, exitCode, exitThread, mainPc>>
    /\ UNCHANGED <<platform, assembly, queue, running, obs>>
    /\ UNCHANGED <<rtVars, harnessVars, execVars, criterionVars>>

\* #[apple_main::test] (macros/src/lib.rs:75-81): each test function runs on
\* a thread of the standard harness, calls init_runtime() and then drives
\* its body with block_on.
TestInitRuntime(c) ==
    /\ Live /\ assembly = "test" /\ pc[c] = "idle"
    /\ InitRuntimeEnter(c)
    /\ pc' = [pc EXCEPT ![c] = IF rtPc'[c] = "idle" THEN "ready" ELSE "init"]
    /\ UNCHANGED <<platform, assembly, mainPc, queue, running, calls, obs, exited, exitCode, exitThread>>
    /\ UNCHANGED <<harnessVars, execVars, criterionVars, userRt>>

\* A failed build panics the test's thread: the test has failed.
TestBuildRuntime(c) ==
    /\ Live /\ assembly = "test" /\ pc[c] = "init"
    /\ \E ok \in BOOLEAN :
        /\ BuildRuntime(c, ok)
        /\ pc' = [pc EXCEPT ![c] = IF ok THEN "ready" ELSE "panicked"]
    /\ UNCHANGED <<platform, assembly, mainPc, queue, running, calls, obs, exited, exitCode, exitThread>>
    /\ UNCHANGED <<harnessVars, execVars, criterionVars, userRt>>

TestWake(c) ==
    /\ Live /\ assembly = "test" /\ pc[c] = "init"
    /\ InitRuntimeWake(c)
    /\ pc' = [pc EXCEPT ![c] = IF rtPc'[c] = "idle" THEN "ready" ELSE "init"]
    /\ UNCHANGED <<platform, assembly, mainPc, queue, running, calls, obs, exited, exitCode, exitThread>>
    /\ UNCHANGED <<harnessVars, execVars, criterionVars, userRt>>

\* Every assembly that runs user code, with user code that calls runtime().
InitUser ==
    /\ platform \in {"macos", "other"}
    /\ assembly \in {"main", "test", "harness", "criterion"}
    /\ mainPc = "start"
    /\ pc = [c \in Callers |-> "idle"]
    /\ queue = <<>>
    /\ running = 0
    /\ calls = <<>>
    /\ obs = <<>>
    /\ exited = FALSE
    /\ exitCode = 0
    /\ exitThread = NoThread
    /\ RtInit
    /\ registry = (IF assembly = "harness" THEN [i \in 1..NumCallers |-> i] ELSE <<>>)
    /\ trials = <<>>
    /\ reads = 0
    /\ faulty = {}
    /\ testThreads = "pool"
    /\ report = NoReport
    /\ workers = [w \in Workers |-> 0]
    /\ awaiting = [c \in Callers |-> NoAwait]
    /\ benchPc = "none"
    /\ startCh = "none"
    /\ userRt = [c \in Callers |-> "none"]

NextUser ==
    \/ NextAssemblies
    \/ \E c \in Callers :
        \/ UserRuntime(c)
        \/ TestInitRuntime(c)
        \/ TestBuildRuntime(c)
        \/ TestWake(c)

SpecUser == InitUser /\ [][NextUser]_vars

\* ================================================================ claims
Affinity == platform = "macos"
AsyncCalls == {k \in CallIds : calls[k].kind = "async"}
SyncCalls == {k \in CallIds : calls[k].kind = "sync"}
QueuedAt(k) == {i \in 1..Len(queue) : queue[i].type = "call" /\ queue[i].id = k}

\* C1: with main-thread affinity every on_main(f) that resolves, resolves to
\* the value its own closure produced; the closure runs at most once, exactly
\* once for a call that resolved; at most one value is ever sent on the
\* call's channel, and what sits in the channel is that closure's value.
C1_OnMainOwnResult ==
    Affinity =>
        \A k \in AsyncCalls :
            /\ calls[k].execCount <= 1
            /\ calls[k].sendCount <= 1
            /\ calls[k].tx = "sent" =>
                  /\ calls[k].st = "done"
                  /\ calls[k].chanVal = calls[k].produced
                  /\ calls[k].produced = ValueOf(k)
            /\ calls[k].outcome = "returned" =>
                  /\ calls[k].execCount = 1
                  /\ calls[k].sendCount = 1
                  /\ calls[k].result = calls[k].produced
                  /\ calls[k].result = ValueOf(k)

\* Two on_main calls of different tasks in flight together: the later one
\* has resolved while the earlier one's value still waits in its channel.
C1_Witness ==
    /\ Affinity /\ mainPc = "loop"
    /\ Len(calls) >= 2
    /\ calls[1].kind = "async" /\ calls[2].kind = "async"
    /\ calls[1].owner # calls[2].owner
    /\ calls[2].outcome = "returned" /\ calls[2].result = ValueOf(2)
    /\ calls[1].outcome = "pending" /\ calls[1].tx = "sent"

\* C2: with main-thread affinity a dispatched closure, of on_main or of
\* on_main_sync, is executed by the main thread only: while it runs and ever
\* after, its executing thread is the main thread and is_main_thread()
\* inside it is true.
C2_ClosuresOnMainThread ==
    Affinity =>
        /\ \A k \in CallIds :
              calls[k].st \in {"running", "done"} =>
                  /\ calls[k].execThread = MainThread
                  /\ calls[k].sawMain
        /\ running # 0 =>
              /\ calls[running].st = "running"
              /\ calls[running].execThread = MainThread
              /\ calls[running].execThread # ThreadOf(calls[running].owner)

\* An on_main_sync closure is executing after an on_main closure has run.
C2_Witness ==
    /\ Affinity /\ running # 0
    /\ calls[running].kind = "sync"
    /\ \E j \in AsyncCalls : calls[j].st = "done" /\ calls[j].sawMain

\* The state of an on_main_sync call and of its caller.
C3_BlockedUntilDone ==
    Affinity =>
        \A k \in SyncCalls :
            /\ calls[k].outcome \in {"pending", "returned"}
            /\ calls[k].outcome = "pending" => pc[calls[k].owner] = "blocked"
            /\ calls[k].outcome = "returned" =>
                  /\ calls[k].st = "done"
                  /\ calls[k].execThread = MainThread
                  /\ calls[k].result = calls[k].produced
                  /\ calls[k].result = ValueOf(k)

\* A caller blocked in on_main_sync takes no step of its own.
C3_NoProgress ==
    \A c \in Callers :
        (pc[c] = "blocked" /\ \E k \in Pending(c) : calls[k].st # "done") =>
            /\ pc'[c] = "blocked"
            /\ \A k \in 1..Len(calls') : k > Len(calls) => calls'[k].owner # c
            /\ \A k \in CallIds : calls[k].owner = c => calls'[k].outcome = calls[k].outcome

\* C3: with main-thread affinity on_main_sync(f) called off the main thread
\* returns only after the main thread has finished f, with the value f
\* produced; from the call to the return the calling thread is blocked and
\* takes no step of its own.
C3_SyncBlocksCaller == [](C3_BlockedUntilDone) /\ [][C3_NoProgress]_vars

C3_Witness ==
    /\ Affinity
    /\ \E k \in SyncCalls :
          /\ calls[k].outcome = "returned"
          /\ calls[k].result = ValueOf(k)
          /\ pc[calls[k].owner] = "ready"

\* The instance the callers of init_runtime hold.
C4_OneInstance ==
    /\ constructed <= 1
    /\ RUNTIME \in {NoRuntime, constructed}
    /\ (once = "complete") = (RUNTIME # NoRuntime)
    /\ \A t \in RtThreads :
          (rtRet[t].op = "init_runtime" /\ rtPc[t] # "panicked") =>
              /\ constructed = 1
              /\ rtRet[t].inst = RUNTIME
              /\ rtRet[t].inst # NoRuntime

\* A stored instance stays.
C4_NeverReplaced ==
    RUNTIME # NoRuntime => (RUNTIME' = RUNTIME /\ once' = once /\ constructed' = constructed)

\* C4: however the threads calling init_runtime interleave, at most one
\* executor is ever constructed, exactly one once a call has returned; every
\* call that returns yields the stored instance; the stored instance is never
\* replaced.
C4_InitRuntimeSingleton == [](C4_OneInstance) /\ [][C4_NeverReplaced]_vars

\* The race: one thread has built and stored the instance and returned it
\* while another, which found the initializer running, still waits for it.
C4_Witness ==
    /\ constructed = 1
    /\ \E t, u \in RtThreads :
          /\ rtPc[t] = "waiting"
          /\ rtRet[u].op = "init_runtime" /\ rtRet[u].inst = RUNTIME
          /\ rtPc[u] = "idle" /\ rtOps[u] = 1

\* What a call of runtime() or block_on() ended with.
C5_ResultOfGet ==
    \A t \in RtThreads :
        rtRet[t].op \in {"runtime", "block_on"} =>
            IF rtPc[t] = "panicked"
            THEN rtRet[t].inst = NoRuntime
            ELSE /\ rtRet[t].inst = RUNTIME
                 /\ rtRet[t].inst # NoRuntime
                 /\ once = "complete"

\* The step that is a call of runtime() or block_on().
C5_GetStep ==
    \A t \in RtThreads :
        /\ (rtPc[t] = "idle" /\ rtPc'[t] = "panicked") =>
              /\ once # "complete"
              /\ RUNTIME = NoRuntime
              /\ rtRet'[t].op \in {"runtime", "block_on"}
              /\ UNCHANGED <<RUNTIME, once, constructed>>
        /\ (rtOps'[t] # rtOps[t] /\ rtRet'[t].op \in {"runtime", "block_on"}) =>
              /\ once = "complete"
              /\ rtRet'[t].inst = RUNTIME
              /\ UNCHANGED <<RUNTIME, once, constructed>>

\* C5: runtime() and block_on() panic when called while init_runtime has not
\* completed, and leave the slot as it was; called after it has completed
\* they return the stored instance and never panic.
C5_RuntimeBeforeInit == [](C5_ResultOfGet) /\ [][C5_GetStep]_vars

\* One thread called runtime() while another was still building and
\* panicked; a third used block_on() after the build and got the instance.
C5_Witness ==
    \E t, u \in RtThreads :
        /\ rtPc[t] = "panicked" /\ rtRet[t].op = "runtime"
        /\ rtRet[u].op = "block_on" /\ rtRet[u].inst = RUNTIME
        /\ RUNTIME # NoRuntime

\* The answers is_main_thread() has given.
C6_OracleAnswers ==
    /\ obs # <<>> =>
          IF Affinity THEN obs[2] = (obs[1] = MainThread) ELSE obs[2] = TRUE
    /\ \A k \in CallIds :
          calls[k].execThread # NoThread =>
              IF Affinity THEN calls[k].sawMain = (calls[k].execThread = MainThread)
              ELSE calls[k].sawMain = TRUE

\* A call of is_main_thread() changes nothing else.
C6_NoSideEffect ==
    obs' # obs =>
        UNCHANGED <<platform, assembly, mainPc, pc, queue, running, calls,
                    exited, exitCode, exitThread, RUNTIME, once, constructed,
                    rtPc, rtRet, rtOps, registry, trials, reads, faulty,
                    testThreads, report, workers, awaiting, benchPc, startCh,
                    userRt>>

C7_InlineWithoutAffinity ==
    ~Affinity =>
        /\ queue = <<>>
        /\ running = 0
        /\ \A c \in Callers : pc[c] \notin {"blocked", "parked", "panicked"}
        /\ \A k \in CallIds :
              /\ calls[k].st = "done"
              /\ calls[k].execCount = 1
              /\ calls[k].execThread = ThreadOf(calls[k].owner)
              /\ calls[k].outcome = "returned"
              /\ calls[k].result = calls[k].produced
              /\ calls[k].result = ValueOf(k)

\* Both an on_main and an on_main_sync ran inline, one of them on the thread
\* that entered main and one on a spawned thread.
C7_Witness ==
    /\ ~Affinity
    /\ AsyncCalls # {} /\ SyncCalls # {}
    /\ \E j, k \in CallIds :
          calls[j].execThread = MainThread /\ calls[k].execThread # MainThread

\* How an on_main call can end, by what became of its sender.
C8_NoValueWithoutSend ==
    Affinity => \A k \in AsyncCalls :
        /\ calls[k].st = "discarded" =>
              /\ calls[k].outcome \in {"pending", "panicked", "abandoned"}
              /\ calls[k].result = NoVal
              /\ calls[k].sendCount = 0
              /\ calls[k].execCount = 0
        /\ calls[k].outcome = "returned" =>
              /\ calls[k].tx = "sent"
              /\ calls[k].sendCount = 1
              /\ calls[k].result = calls[k].produced
        /\ calls[k].outcome = "panicked" =>
              /\ calls[k].st = "discarded"
              /\ pc[calls[k].owner] = "panicked"

\* Awaiting a call whose work item was dropped can only fail.
C8_AwaitFails ==
    \A k \in AsyncCalls :
        (calls[k].st = "discarded" /\ calls[k].outcome = "pending"
            /\ calls'[k].outcome # "pending")
        => calls'[k].outcome \in {"panicked", "abandoned"}

\* C8: an on_main call whose work item was dropped without running never
\* returns a value: its closure produced nothing, nothing was sent, and when
\* the await resolves it panics; every call that did return received a value
\* that was sent.
C8_DroppedSenderIsFatal == [](C8_NoValueWithoutSend) /\ [][C8_AwaitFails]_vars

\* A work item was dropped from the queue and its awaiting call panicked.
C8_Witness ==
    \E k \in AsyncCalls :
        /\ calls[k].st = "discarded"
        /\ calls[k].outcome = "panicked"
        /\ pc[calls[k].owner] = "panicked"

\* C9 as stated: a future of on_main dropped after its work item was
\* enqueued leaves the closure to be executed all the same; so when the
\* process has ended, the closure of every such call has been executed.
C9_DroppedExecutedAtExit ==
    exited =>
        \A k \in AsyncCalls :
            (calls[k].rx = "dropped" /\ calls[k].tx # "sent") => calls[k].execCount = 1

\* A call whose future was dropped before a value was sent.
DroppedInFlight(k) ==
    /\ k \in AsyncCalls
    /\ calls[k].rx = "dropped"
    /\ calls[k].tx # "sent"

\* The dropped call's work item is kept, run at most once, its result kept
\* from everyone; nobody panics.
C9_DropKeepsWork ==
    Affinity =>
        /\ \A k \in CallIds : DroppedInFlight(k) =>
              /\ calls[k].st \in {"queued", "running", "done"}
              /\ calls[k].st = "queued" => Cardinality(QueuedAt(k)) = 1
              /\ calls[k].st = "running" => running = k
              /\ calls[k].execCount <= 1
              /\ calls[k].st = "done" =>
                    /\ calls[k].execCount = 1
                    /\ calls[k].execThread = MainThread
                    /\ calls[k].produced = ValueOf(k)
                    /\ calls[k].sendCount = 0
                    /\ calls[k].chanVal = NoVal
              /\ calls[k].result = NoVal
              /\ calls[k].outcome = "abandoned"
        /\ calls # <<>> =>
              /\ mainPc # "panicked"
              /\ \A c \in Callers : pc[c] # "panicked"

\* The step that drops the future leaves the queue's content alone.
C9_DropLeavesQueue ==
    \A k \in CallIds :
        (calls[k].rx = "alive" /\ calls'[k].rx = "dropped") =>
            /\ queue' = queue \/ \E code \in {0} : queue' = Append(queue, ExitItem(code))
            /\ running' = running
            /\ calls'[k].st = calls[k].st

\* The closure is run, unless the process exits.
C9_EventuallyRuns ==
    \A k \in 1..MaxCalls :
        (k \in CallIds /\ DroppedInFlight(k))
            ~> (exited \/ (k \in CallIds /\ calls[k].st = "done"))

\* C9, amended: a future of on_main dropped after its work item was enqueued
\* does not take the item back: the item stays in the queue until the main
\* thread runs it, the closure runs at most once and, unless the process
\* exits first, exactly once on the main thread; its result is then
\* discarded, no value reaches any caller, and neither the main thread nor a
\* caller panics.
C9_DroppedFutureStillRuns ==
    /\ [](C9_DropKeepsWork)
    /\ [][C9_DropLeavesQueue]_vars
    /\ C9_EventuallyRuns

\* The future was dropped while its work item was queued; the main thread
\* has since run the closure and found no receiver for the result.
C9_Witness ==
    /\ Affinity /\ ~exited /\ mainPc = "loop"
    /\ \E k \in AsyncCalls :
          /\ calls[k].rx = "dropped" /\ calls[k].outcome = "abandoned"
          /\ calls[k].st = "done" /\ calls[k].execCount = 1
          /\ calls[k].tx = "dropped"

\* C10 as stated: every enqueued work item is executed; so when the process
\* has ended, no work item is still waiting in the main queue.
C10_AllExecutedAtExit ==
    exited => \A k \in CallIds : calls[k].st # "queued"

\* Every pending call has its one work item in the queue.
C10_QueueHoldsPending ==
    /\ \A k \in CallIds :
          /\ calls[k].st = "queued" => Cardinality(QueuedAt(k)) = 1
          /\ calls[k].st # "queued" => QueuedAt(k) = {}
          /\ calls[k].st \in {"queued", "running", "done"}
    /\ \A i \in 1..Len(queue) : queue[i].type = "call" => queue[i].id \in CallIds

\* The queue changes by appending, or by the main thread taking its head.
C10_OnlyHeadLeaves ==
    /\ \A k \in CallIds :
          calls[k].st = "queued" =>
              \/ calls'[k].st = "queued"
              \/ /\ calls'[k].st = "running"
                 /\ Head(queue) = CallItem(k)
                 /\ running' = k
                 /\ mainPc = "loop"
    /\ \/ queue' = queue
       \/ \E item \in {CallItem(Len(calls) + 1), ExitItem(0)} : queue' = Append(queue, item)
       \/ queue # <<>> /\ queue' = Tail(queue)

\* Every queued item is run, unless the process exits.
C10_RunsUnlessExit ==
    \A k \in 1..MaxCalls :
        (k \in CallIds /\ calls[k].st = "queued")
            ~> (exited \/ (k \in CallIds /\ calls[k].st = "done"))

\* C10, amended: nothing withdraws or skips a pending work item: an item
\* leaves the main queue only from its head, taken by the main thread to be
\* executed, and while the process has not exited every enqueued item is
\* eventually executed. Items still queued when the process exits are not.
C10_NoWithdrawal ==
    /\ [](C10_QueueHoldsPending)
    /\ [][C10_OnlyHeadLeaves]_vars
    /\ C10_RunsUnlessExit

\* An item enqueued behind others has been run to completion by the main
\* thread while the process lives on.
C10_Witness ==
    /\ Affinity /\ ~exited
    /\ Len(calls) >= 2
    /\ calls[1].st = "done" /\ calls[2].st = "done"
    /\ calls[2].execCount = 1

\* The failing cases among the trials.
DesignedToFail == {i \in 1..Len(trials) : trials[i] \in faulty}

\* C11: given N registered cases of which M fail in their body, the harness
\* reports exactly M failures and N-M passes and exits with a non-zero code
\* if and only if M > 0, whatever the registration order; the cases that do
\* not fail are reported as passed.
C11_ReportMatchesDesign ==
    (assembly = "harness" /\ report.done) =>
        /\ report.failed = Cardinality(DesignedToFail)
        /\ report.passed = Len(trials) - Cardinality(DesignedToFail)
        /\ (exitCode # 0) = (Cardinality(DesignedToFail) > 0)
        /\ Failed = DesignedToFail

\* The body of the entry point has ended, one way or the other.
BodyCompleted == pc[1] \in {"finished", "parked", "unparked"}
BodyPanicked == pc[1] = "panicked"

\* C12: a program assembled by the main entry point exits with code 0 when
\* its body completes normally and with a non-zero code when its body panics,
\* with and without affinity: once the body has ended the process does not
\* come to rest without having exited, and the code it exits with tells how
\* the body ended.
C12_BodyDecidesExit ==
    assembly = "main" =>
        /\ (BodyCompleted \/ BodyPanicked) /\ ~ENABLED NextEntry => exited
        /\ exited /\ BodyCompleted => exitCode = 0
        /\ exited /\ BodyPanicked => exitCode # 0

\* The exit requests waiting in the main queue.
ExitRequests == {i \in 1..Len(queue) : queue[i].type = "exit"}

\* While the process lives, the completed body's request is in the queue;
\* the process ends by the main thread executing it, with the given code.
C13_RequestQueued ==
    (Affinity /\ assembly = "main" /\ BodyCompleted) =>
        /\ pc[1] \in {"parked", "unparked"}
        /\ ~exited => /\ Cardinality(ExitRequests) = 1
                      /\ \A i \in ExitRequests : queue[i] = ExitItem(0)
        /\ exited => exitCode = 0 /\ exitThread = MainThread

\* The requesting thread does nothing after the request but park again.
C13_StaysParked ==
    \A c \in Callers :
        pc[c] \in {"parked", "unparked"} =>
            /\ pc'[c] \in {"parked", "unparked"}
            /\ \A k \in 1..Len(calls') : k > Len(calls) => calls'[k].owner # c
            /\ \A k \in CallIds :
                  calls[k].owner = c =>
                      /\ calls'[k].outcome = calls[k].outcome
                      /\ calls'[k].rx = calls[k].rx
                      /\ calls'[k].result = calls[k].result

\* The process terminates.
C13_Terminates ==
    (Affinity /\ assembly = "main" /\ BodyCompleted) ~> exited

\* C13: with affinity, whenever the body of the entry point completes, the
\* process eventually terminates: the completing thread has put one exit
\* request in the main queue, the main thread executes it and exits the
\* process with the given code, and the requesting thread runs no further
\* code after the request: it parks, and parks again after every wake-up.
C13_BodyEndTerminates ==
    /\ [](C13_RequestQueued)
    /\ [][C13_StaysParked]_vars
    /\ C13_Terminates

\* The main thread has executed the exit request while the requesting
\* thread was between two parks, and after it had run a dispatched closure.
C13_Witness ==
    /\ Affinity /\ assembly = "main"
    /\ exited /\ exitCode = 0 /\ exitThread = MainThread
    /\ pc[1] = "unparked"
    /\ \E k \in CallIds : calls[k].st = "done"

\* While a trial runs, the process lives and the main thread is in its run
\* loop or on its way into it.
C14_LoopWhileTrialsRun ==
    (Affinity /\ assembly = "harness") =>
        \A c \in Callers :
            pc[c] \in {"ready", "blocked"} =>
                /\ c \in TrialCases
                /\ ~exited
                /\ mainPc \in {"spawned", "loop"}

\* A call a trial made ends with the closure's value, unless the trial gave
\* the future up itself.
C14_CallCompletes ==
    \A k \in 1..MaxCalls :
        (Affinity /\ assembly = "harness" /\ k \in CallIds /\ calls[k].outcome = "pending")
            ~> (k \in CallIds
                /\ \/ calls[k].outcome = "returned" /\ calls[k].result = ValueOf(k)
                   \/ calls[k].outcome = "abandoned" /\ calls[k].kind = "async")

\* C14: with affinity every on_main / on_main_sync call made in a registered
\* test body eventually completes with the closure's value: while a trial
\* runs the main thread is in its run loop, or enters it, and drains the
\* queue, also of what was submitted before the loop started.
C14_HarnessDispatchCompletes ==
    /\ [](C14_LoopWhileTrialsRun)
    /\ C14_CallCompletes

\* Calls of both kinds, made by two trials, have returned their closures'
\* values while the harness runs.
C14_Witness ==
    /\ Affinity /\ assembly = "harness" /\ ~exited
    /\ \E j, k \in CallIds :
          /\ calls[j].kind = "async" /\ calls[k].kind = "sync"
          /\ calls[j].owner # calls[k].owner
          /\ calls[j].outcome = "returned" /\ calls[j].result = ValueOf(j)
          /\ calls[k].outcome = "returned" /\ calls[k].result = ValueOf(k)

\* C15 as stated: with affinity, when all test jobs have finished the
\* harness delivers a stop/exit request to the main thread, and the process
\* exit that follows is the main thread's.
C15_ExitByMainThread ==
    (Affinity /\ assembly = "harness" /\ report.done) => exitThread = MainThread

\* The end of the harness: the conclusion counts every trial, the code tells
\* whether one failed, the exit is the runner's own, and the main thread was
\* sent nothing: its run loop was never stopped and run_tests never returned.
C15_ExitReflectsReport ==
    (Affinity /\ assembly = "harness") =>
        /\ ExitRequests = {}
        /\ mainPc \in {"start", "collected", "init_runtime", "inited",
                        "spawned", "loop", "panicked"}
        /\ report.done =>
              /\ exited
              /\ \A i \in 1..Len(trials) : Ended(i)
              /\ report.passed + report.failed = Len(trials)
              /\ report.failed = Cardinality(Failed)
              /\ (exitCode # 0) = (report.failed > 0)
              /\ exitThread = RunnerThread
              /\ mainPc \in {"spawned", "loop"}
        /\ (exited /\ ~report.done) => mainPc = "panicked"

\* Once every trial has ended the process exits.
C15_AllEndedLeadsToExit ==
    (Affinity /\ assembly = "harness" /\ mainPc \in {"spawned", "loop"}
        /\ \A i \in 1..Len(trials) : Ended(i))
    ~> (exited /\ report.done)

\* C15, amended: with affinity, when all test jobs have finished the process
\* exits with a status reflecting the aggregate pass/fail result; the exit is
\* called by the runner on its executor thread, no stop or exit request is
\* delivered to the main thread, whose run loop is never stopped, and
\* run_tests never returns to its caller.
C15_HarnessExitsDirectly ==
    /\ [](C15_ExitReflectsReport)
    /\ C15_AllEndedLeadsToExit

\* One trial passed and one failed; the runner has exited the process with
\* 101 while the main thread was in its run loop.
C15_Witness ==
    /\ Affinity /\ assembly = "harness"
    /\ report.done /\ report.passed > 0 /\ report.failed > 0
    /\ exited /\ exitCode = 101 /\ exitThread = RunnerThread
    /\ mainPc = "loop"

\* The on_main_sync calls made on the main thread.
MainSyncCalls == {k \in CallIds : calls[k].kind = "sync" /\ calls[k].owner = MainThread}

\* The call is neither executed nor answered: its work item waits behind the
\* closure that made it, which never returns; the main thread has not
\* panicked.
C16_NeverAnswered ==
    Affinity =>
        \A k \in MainSyncCalls :
            /\ calls[k].st = "queued" /\ Cardinality(QueuedAt(k)) = 1
            /\ calls[k].execCount = 0
            /\ calls[k].outcome = "pending" /\ calls[k].result = NoVal
            /\ running # 0 /\ calls[running].st = "running"
            /\ mainPc = "loop"
            /\ MainWaiting

\* From then on the main thread takes nothing from its queue and finishes
\* nothing.
C16_MainThreadStuck ==
    MainWaiting =>
        /\ running' = running
        /\ mainPc' = mainPc
        /\ Len(queue') >= Len(queue)
        /\ SubSeq(queue', 1, Len(queue)) = queue
        /\ \A k \in CallIds : calls'[k].st = calls[k].st

\* C16: with affinity on_main_sync called on the main thread deadlocks: the
\* main thread waits for a work item only the main thread could execute; the
\* call yields no value, no error and no panic, and nothing in the bridge
\* detects or prevents it.
C16_SyncOnMainDeadlocks == [](C16_NeverAnswered) /\ [][C16_MainThreadStuck]_vars

\* The closure of a caller's on_main_sync has called on_main_sync on the
\* main thread: the main thread waits for its own queue, and the caller for
\* the main thread.
C16_Witness ==
    /\ Affinity /\ ~exited
    /\ \E k \in MainSyncCalls : QueuedAt(k) = {Len(queue)}
    /\ running # 0 /\ calls[running].kind = "sync"
    /\ pc[calls[running].owner] = "blocked"

\* C17: work items submitted by one caller are executed in the order the
\* caller submitted them: a later one starts only when every earlier one has
\* finished, awaited or not; the queue holds the items in submission order
\* and the main thread runs one item at a time.
C17_CallerOrder ==
    /\ \A j, k \in CallIds :
          (j < k /\ calls[j].owner = calls[k].owner
                /\ calls[k].st \in {"running", "done"})
          => calls[j].st = "done"
    /\ \A p, q \in 1..Len(queue) :
          (p < q /\ queue[p].type = "call" /\ queue[q].type = "call")
          => queue[p].id < queue[q].id
    /\ Cardinality({k \in CallIds : calls[k].st = "running"}) <= 1

\* A caller submitted two closures without awaiting the first; both have
\* run, in that order, and both results wait in their channels.
C17_Witness ==
    /\ Affinity /\ Len(calls) >= 2
    /\ calls[1].owner = calls[2].owner
    /\ calls[1].kind = "async" /\ calls[2].kind = "async"
    /\ calls[1].st = "done" /\ calls[2].st = "done"
    /\ calls[1].outcome = "pending" /\ calls[2].outcome = "pending"
    /\ calls[1].tx = "sent" /\ calls[2].tx = "sent"

\* C18: with affinity the body of the entry point and the registered test
\* bodies run on threads other than the main thread: the main thread never
\* drives a body itself, it runs dispatched closures only, and
\* is_main_thread() asked directly in a body is false.
C18_BodiesOffMainThread ==
    Affinity =>
        /\ \A c \in Callers : pc[c] # "idle" => ThreadOf(c) # MainThread
        /\ obs # <<>> => (obs[1] # MainThread /\ obs[2] = FALSE)
        /\ mainPc \in {"start", "collected", "init_runtime", "inited",
                        "spawned", "loop", "panicked"}
        /\ \A k \in CallIds :
              calls[k].execThread # NoThread =>
                  /\ calls[k].execThread = MainThread
                  /\ calls[k].execThread # ThreadOf(calls[k].owner)

\* A test body asked is_main_thread() and was told no, while the main thread
\* was executing a closure dispatched to it.
C18_Witness ==
    /\ Affinity /\ assembly = "harness"
    /\ obs # <<>> /\ obs[2] = FALSE
    /\ mainPc = "loop" /\ running # 0

\* A task suspended in on_main(..).await occupies no worker, and the worker
\* it left can take any task that is ready; a caller of on_main_sync keeps
\* its worker.
C19_CarrierFree ==
    /\ \A c \in Callers :
          Suspended(c) =>
              /\ ~OnWorker(c)
              /\ awaiting[c].call \in Pending(c)
              /\ \A d \in Callers :
                    (~exited /\ workers[awaiting[c].carrier] = 0
                        /\ pc[d] = "ready" /\ ~OnWorker(d) /\ ~Suspended(d))
                    => ENABLED Schedule(awaiting[c].carrier, d)
    /\ \A c \in Callers : pc[c] = "blocked" => OnWorker(c)

\* A suspended task is resumed only once its channel has been written.
C19_ResumeAfterSend ==
    \A c \in Callers :
        (Suspended(c) /\ awaiting'[c] = NoAwait) =>
            /\ calls[awaiting[c].call].tx = "sent"
            /\ calls[awaiting[c].call].st = "done"
            /\ calls'[awaiting[c].call].outcome = "pending"

\* C19: a task suspended awaiting on_main does not block its carrier worker:
\* the worker is free, and can run another ready task before the dispatched
\* closure has completed; the awaiting task is resumed only after the
\* completion channel has been written.
C19_AwaitFreesWorker == [](C19_CarrierFree) /\ [][C19_ResumeAfterSend]_vars

\* The worker that carried the awaiting task is running another task while
\* the awaited closure has not completed.
C19_Witness ==
    \E c, d \in Callers :
        /\ c # d /\ Suspended(c)
        /\ calls[awaiting[c].call].st \in {"queued", "running"}
        /\ workers[awaiting[c].carrier] = d
        /\ \E k \in CallIds : calls[k].owner = d

\* The registry is read once, before anything else; bodies run for the
\* cases of that read only, and what is registered later is left alone.
C20_OneRead ==
    assembly = "harness" =>
        /\ reads <= 1
        /\ reads = 0 => (mainPc = "start" /\ trials = <<>>)
        /\ Len(trials) <= Len(registry)
        /\ \A i \in 1..Len(trials) : trials[i] = registry[i]
        /\ \A i, j \in 1..Len(trials) : i # j => trials[i] # trials[j]
        /\ \A c \in Callers : pc[c] # "idle" => c \in TrialCases
        /\ report.done => report.passed + report.failed = Len(trials)

\* The read turns the registry as it is into the trials, one trial per
\* case; the registry only grows; the trials never change afterwards; a
\* body that was started is never started again.
C20_SinglePassStep ==
    /\ reads' # reads => (reads = 0 /\ reads' = 1 /\ trials' = registry)
    /\ reads' = reads => trials' = trials
    /\ Len(registry') >= Len(registry)
    /\ SubSeq(registry', 1, Len(registry)) = registry
    /\ \A c \in Callers : pc[c] # "idle" => pc'[c] # "idle"
    /\ \A c \in Callers : pc[c] \in {"finished", "panicked"} => pc'[c] = pc[c]

\* C20: the harness makes a single pass: it reads the registry exactly once,
\* at its start; every case present at that read becomes exactly one trial,
\* none dropped and none duplicated, and its body is run at most once;
\* nothing appended to the registry after the read is executed.
C20_SinglePass == [](C20_OneRead) /\ [][C20_SinglePassStep]_vars

\* The harness has ended having run the one case it read; a case registered
\* after the read was never started.
C20_Witness ==
    /\ assembly = "harness" /\ report.done
    /\ Len(trials) = 1 /\ Len(registry) = 2
    /\ report.passed = 1
    /\ pc[registry[2]] = "idle"

\* The state of the main thread's event loop. With affinity main returns
\* from a stopped loop; without it main returns having run no loop.
LoopState ==
    IF mainPc = "loop" THEN "running"
    ELSE IF mainPc = "stopped" \/ (mainPc = "returned" /\ Affinity) THEN "stopped"
    ELSE "not started"

\* The loop moves one way only.
C21_LoopMoves ==
    LoopState' # LoopState =>
        \/ LoopState = "not started" /\ LoopState' = "running"
        \/ LoopState = "running" /\ LoopState' = "stopped"

\* run_main_loop, the loop of the entry point and of the harness, never
\* returns; without affinity no loop is started.
C21_RunMainLoopStays ==
    /\ assembly \in {"main", "harness"} => LoopState # "stopped"
    /\ ~Affinity => LoopState = "not started"

\* A stopped loop is followed by the exit of the process.
C21_StoppedLeadsToExit == (LoopState = "stopped") ~> exited

\* C21: the main thread's event loop moves only along not started -> running
\* -> stopped: it starts running at most once in every assembly, never leaves
\* stopped, a stopped loop is followed by the exit of the process, and
\* run_main_loop never returns to its caller.
C21_LoopLifecycle ==
    /\ [][C21_LoopMoves]_vars
    /\ [](C21_RunMainLoopStays)
    /\ C21_StoppedLeadsToExit

\* The Criterion main: its loop ran, was stopped by the request taken from
\* the queue, and main has returned.
C21_Witness ==
    /\ assembly = "criterion" /\ Affinity
    /\ LoopState = "stopped" /\ exited /\ exitThread = MainThread
    /\ benchPc = "done" /\ queue = <<>>

\* The groups that have started, the run loop having begun, and the stop
\* request waiting in the main queue.
GroupsStarted == {c \in Callers : pc[c] # "idle"}
LoopBegun == mainPc \in {"loop", "stopped", "returned"}
StopRequested == \E i \in 1..Len(queue) : queue[i].type = "stop"

\* A group has started only if the run loop has begun, the start signal was
\* sent by the closure the loop took from the queue, and init_runtime has
\* stored the executor.
C22_StartAfterLoopAndInit ==
    (Affinity /\ assembly = "criterion" /\ GroupsStarted # {}) =>
        /\ LoopBegun
        /\ startCh = "sent"
        /\ RuntimeSlot(once, RUNTIME) # NoRuntime

\* A group dispatches only while the loop runs and before the stop request.
C22_CallsFindLoop ==
    (Affinity /\ assembly = "criterion" /\ Len(calls') > Len(calls)) =>
        /\ mainPc = "loop"
        /\ ~StopRequested
        /\ RuntimeSlot(once, RUNTIME) # NoRuntime

\* The stop is requested, and the loop stopped, only after every group and
\* the final summary; main returns only from a stopped loop.
C22_StopAfterSummary ==
    (Affinity /\ assembly = "criterion") =>
        /\ (StopRequested \/ mainPc \in {"stopped", "returned"}) =>
              /\ \A c \in Callers : pc[c] = "finished"
              /\ benchPc = "done"
        /\ exited => mainPc = "returned"

\* Once the stop was requested the loop stops and main returns.
C22_StopLeadsToReturn ==
    (Affinity /\ assembly = "criterion" /\ benchPc = "done")
    ~> (exited /\ mainPc = "returned" /\ exitCode = 0)

\* C22: in the criterion assembly with affinity no benchmark group starts
\* before the run loop has begun draining the main queue and before
\* init_runtime has completed, so the groups' block_on and on_main_sync find
\* an initialized executor and a draining loop; the loop is stopped only after
\* every group and the final summary, and then main returns.
C22_CriterionOrdered ==
    /\ [](C22_StartAfterLoopAndInit /\ C22_StopAfterSummary)
    /\ [][C22_CallsFindLoop]_vars
    /\ C22_StopLeadsToReturn

\* Two groups have run, one with on_main_sync and one with on_main under
\* block_on, both answered with their closures' values; the loop was stopped
\* and main has returned.
C22_Witness ==
    /\ Affinity /\ assembly = "criterion"
    /\ exited /\ mainPc = "returned"
    /\ \E j, k \in CallIds :
        /\ calls[j].kind = "sync" /\ calls[k].kind = "async"
        /\ calls[j].owner # calls[k].owner
        /\ calls[j].outcome = "returned" /\ calls[j].result = ValueOf(j)
        /\ calls[k].outcome = "returned" /\ calls[k].result = ValueOf(k)

\* As long as the main thread has not entered its loop no work item has left
\* the queue or started, no on_main call has a value or an error, and every
\* caller of on_main_sync is blocked in it.
C23_NothingRuns ==
    (Affinity /\ ~LoopBegun) =>
        /\ running = 0
        /\ \A k \in CallIds :
            /\ calls[k].st = "queued" /\ QueuedAt(k) # {}
            /\ calls[k].execCount = 0 /\ calls[k].tx = "held"
            /\ calls[k].outcome \in {"pending", "abandoned"}
            /\ calls[k].result = NoVal
            /\ calls[k].kind = "sync" =>
                  /\ calls[k].outcome = "pending"
                  /\ pc[calls[k].owner] = "blocked"

\* A main thread that drives the body itself never enters the loop.
C23_BlockedMainNeverLoops == assembly = "tokio" => ~LoopBegun

\* C23: with affinity the main queue is drained only while the main thread
\* runs its event loop: where the main thread never enters the loop (it is
\* blocked running the async body itself) no enqueued work item is ever
\* executed, every on_main call stays without a value and without an error,
\* and on_main_sync blocks its caller for good.
C23_NoLoopNoDispatch == C23_NothingRuns /\ C23_BlockedMainNeverLoops

\* Under #[tokio::main] the body has ended and the process with it, while a
\* task it spawned is still blocked in on_main_sync and both work items are
\* still in the queue.
C23_Witness ==
    /\ Affinity /\ assembly = "tokio" /\ exited
    /\ Len(queue) = 2
    /\ \E j, k \in CallIds :
        /\ calls[j].kind = "sync" /\ calls[j].outcome = "pending"
        /\ pc[calls[j].owner] = "blocked"
        /\ calls[k].kind = "async" /\ calls[k].owner = 1
        /\ calls[k].outcome = "abandoned"

\* The dispatched closures that have started and not returned.
Executing == {k \in CallIds : calls[k].st = "running"}

\* C24: dispatched closures run one at a time on the main thread: at no
\* reachable state are two closures of on_main or on_main_sync executing,
\* and the internal exit and stop requests are taken from the queue only
\* when no closure is executing, however many tasks and threads submit.
C24_Serial ==
    /\ Cardinality(Executing) <= 1
    /\ Executing = (IF running = 0 THEN {} ELSE {running})
    /\ \A k \in Executing : calls[k].execThread = MainThread
    /\ (exited /\ exitThread = MainThread /\ mainPc = "loop") => Executing = {}
    /\ LoopState = "stopped" => Executing = {}

\* Two threads have submitted; the closure of one is executing on the main
\* thread while the other's work item waits in the queue.
C24_Witness ==
    /\ Affinity /\ running # 0 /\ queue # <<>>
    /\ Head(queue).type = "call"
    /\ calls[Head(queue).id].owner # calls[running].owner
    /\ calls[Head(queue).id].st = "queued"
    /\ calls[running].st = "running"

\* The callers whose user code has started and not ended.
InUserCode == {c \in Callers : pc[c] \in {"ready", "blocked"}}

\* C25: in every assembly that runs user code, on both platforms, the
\* executor singleton has been stored by init_runtime before user code
\* starts, and no runtime() of user code ends in "runtime not initialized".
C25_RuntimeReady ==
    /\ InUserCode # {} => RuntimeSlot(once, RUNTIME) # NoRuntime
    /\ \A c \in Callers : userRt[c] # "fatal"

\* C26: in the harness with affinity, whatever --test-threads says, no
\* trial's block_on is called on a thread that is driving a task of the
\* executor, and no test case whose body would pass is reported as failed.
C26_NoNestedBlockOn ==
    (Affinity /\ assembly = "harness") =>
        \A i \in 1..Len(trials) :
            /\ pc[trials[i]] # "idle" =>
                  BlockOnAllowed(platform, ThreadOf(trials[i]))
            /\ trials[i] \notin faulty => pc[trials[i]] # "panicked"

====
